---- MODULE Spec2Model ----
(***************************************************************************)
(* Model of the configurator package (config.go): path resolution,         *)
(* project-root discovery, TOML loading from disk and from a URL.          *)
(*                                                                         *)
(* Strings are sequences of one-character strings, so that the lexical     *)
(* path functions (filepath.Clean, Join, Dir, Rel, strings.HasPrefix) act  *)
(* on characters exactly as the Go functions do on Unix.                   *)
(***************************************************************************)
EXTENDS Integers, Sequences, FiniteSets, TLC

\* ------------------------------------------------------------------------
\* Strings and the lexical path functions of path/filepath (Unix).
\* ------------------------------------------------------------------------

Separator == "/"

\* strings.HasPrefix(s, prefix)
HasPrefix(s, prefix) ==
    /\ Len(s) >= Len(prefix)
    /\ SubSeq(s, 1, Len(prefix)) = prefix

DotDot == <<".", ".">>
Dot == <<".">>

\* The elements of a path between separators (empty elements included).
RECURSIVE SplitFrom(_, _, _)
SplitFrom(s, i, cur) ==
    IF i > Len(s) THEN <<cur>>
    ELSE IF s[i] = Separator THEN <<cur>> \o SplitFrom(s, i + 1, <<>>)
    ELSE SplitFrom(s, i + 1, Append(cur, s[i]))

Split(s) == SplitFrom(s, 1, <<>>)

RECURSIVE JoinSegs(_)
JoinSegs(segs) ==
    IF Len(segs) = 0 THEN <<>>
    ELSE IF Len(segs) = 1 THEN segs[1]
    ELSE segs[1] \o <<Separator>> \o JoinSegs(Tail(segs))

\* filepath.IsAbs
IsAbs(path) == HasPrefix(path, <<Separator>>)

\* The element stack filepath.Clean builds: empty and "." elements are
\* dropped, ".." removes the element before it, is dropped at the root of a
\* rooted path and is kept at the front of a relative one.
RECURSIVE CleanStack(_, _, _)
CleanStack(segs, rooted, out) ==
    IF Len(segs) = 0 THEN out
    ELSE LET seg == Head(segs)
             rest == Tail(segs)
         IN IF seg = <<>> \/ seg = Dot THEN CleanStack(rest, rooted, out)
            ELSE IF seg = DotDot THEN
                IF Len(out) > 0 /\ out[Len(out)] # DotDot
                    THEN CleanStack(rest, rooted, SubSeq(out, 1, Len(out) - 1))
                ELSE IF rooted THEN CleanStack(rest, rooted, out)
                ELSE CleanStack(rest, rooted, Append(out, seg))
            ELSE CleanStack(rest, rooted, Append(out, seg))

\* filepath.Clean
Clean(path) ==
    IF path = <<>> THEN Dot
    ELSE LET rooted == IsAbs(path)
             out == CleanStack(Split(path), rooted, <<>>)
         IN IF rooted THEN <<Separator>> \o JoinSegs(out)
            ELSE IF Len(out) = 0 THEN Dot
            ELSE JoinSegs(out)

\* filepath.Join(a, b): empty elements are ignored, the rest is joined with
\* the separator and cleaned; all elements empty gives the empty string.
Join(a, b) ==
    IF a = <<>> /\ b = <<>> THEN <<>>
    ELSE IF a = <<>> THEN Clean(b)
    ELSE IF b = <<>> THEN Clean(a)
    ELSE Clean(a \o <<Separator>> \o b)

RECURSIVE LastSep(_, _)
LastSep(s, i) ==
    IF i = 0 THEN 0
    ELSE IF s[i] = Separator THEN i
    ELSE LastSep(s, i - 1)

\* filepath.Dir: everything up to and including the last separator, cleaned.
Dir(path) == Clean(SubSeq(path, 1, LastSep(path, Len(path))))

\* The elements of a cleaned path, without the root.
Elems(clean) ==
    IF clean = <<Separator>> \/ clean = Dot THEN <<>>
    ELSE IF IsAbs(clean) THEN Tail(Split(clean))
    ELSE Split(clean)

RECURSIVE CommonLen(_, _)
CommonLen(b, t) ==
    IF Len(b) = 0 \/ Len(t) = 0 THEN 0
    ELSE IF Head(b) # Head(t) THEN 0
    ELSE 1 + CommonLen(Tail(b), Tail(t))

RECURSIVE Ups(_)
Ups(n) == IF n = 0 THEN <<>> ELSE <<DotDot>> \o Ups(n - 1)

\* filepath.Rel(basepath, targpath): both are cleaned, the common leading
\* elements are skipped, every base element left becomes "..".
Rel(basepath, targpath) ==
    LET base == Clean(basepath)
        targ == Clean(targpath)
        b == Elems(base)
        t == Elems(targ)
        k == CommonLen(b, t)
    IN IF targ = base THEN [ok |-> TRUE, rel |-> Dot]
       ELSE IF IsAbs(base) # IsAbs(targ) THEN [ok |-> FALSE, rel |-> <<>>]
       ELSE IF k < Len(b) /\ b[k + 1] = DotDot THEN [ok |-> FALSE, rel |-> <<>>]
       ELSE [ok |-> TRUE,
             rel |-> JoinSegs(Ups(Len(b) - k) \o SubSeq(t, k + 1, Len(t)))]

\* ------------------------------------------------------------------------
\* Bounds of the model.
\* ------------------------------------------------------------------------

\* Longest path or start directory a caller passes.
MaxLen == 3

\* Characters of the paths callers pass.
Chars == {"/", ".", "a"}

RECURSIVE StringsUpTo(_)
StringsUpTo(n) ==
    IF n = 0 THEN {<<>>}
    ELSE LET shorter == StringsUpTo(n - 1)
         IN shorter \cup {Append(s, c) : s \in {x \in shorter : Len(x) = n - 1}, c \in Chars}

PathInputs == StringsUpTo(MaxLen)

\* ------------------------------------------------------------------------
\* Errors: the message as a sequence of words, and the set of sentinel
\* errors reachable through %w wrapping (what errors.Is sees).
\* ------------------------------------------------------------------------

Nil == [msg |-> <<>>, is |-> {}]

\* errors.New, named by the variable that holds the sentinel
New(name, words) == [msg |-> words, is |-> {name}]

\* fmt.Errorf("<prefix>: %v", e): the message is kept, the chain is cut.
ErrorfOpaque(prefix, e) == [msg |-> prefix \o e.msg, is |-> {}]

\* fmt.Errorf("<prefix>: %w", e)
Errorf(prefix, e) == [msg |-> prefix \o e.msg, is |-> e.is]

\* errors.Is(e, sentinel)
ErrorsIs(e, name) == name \in e.is

ErrProjectConfigNotFound == New("ErrProjectConfigNotFound", <<"project.toml", "not", "found">>)
ErrUnexpectedHTTPStatus == New("ErrUnexpectedHTTPStatus", <<"unexpected", "HTTP", "status">>)
ErrPathTraversalAttempt ==
    New("ErrPathTraversalAttempt", <<"path", "is", "outside", "the", "current", "directory">>)
ErrProjectTomlNotSet ==
    New("ErrProjectTomlNotSet", <<"PROJECT_TOML", "environment", "variable", "not", "set">>)

\* Errors of the operating system, the TOML library and net/http.
ENOENT == New("ENOENT", <<"no", "such", "file", "or", "directory">>)
EACCES == New("EACCES", <<"permission", "denied">>)
EISDIR == New("EISDIR", <<"is", "a", "directory">>)
RelError == New("RelError", <<"Rel", "can't", "make", "relative">>)
DecodeSyntaxError == New("toml.DecodeError", <<"toml", "expected", "character", "]">>)
DecodeTypeError == New("toml.DecodeError", <<"toml", "cannot", "decode", "TOML", "string", "into", "int">>)
URLParseError == New("url.Error", <<"parse", "invalid", "URL">>)
TransportFailure == New("net.Error", <<"Get", "dial", "tcp", "connection", "refused">>)
BodyReadFailure == New("io.ErrUnexpectedEOF", <<"unexpected", "EOF">>)
DeadlineExceeded ==
    New("context.DeadlineExceeded", <<"Get", "context", "deadline", "exceeded">>)

\* strings.Contains on messages, word by word
Contains(msg, sub) ==
    \E i \in 0..(Len(msg) - Len(sub)) : SubSeq(msg, i + 1, i + Len(sub)) = sub

\* ------------------------------------------------------------------------
\* TOML payloads and the decode target.  A payload is a sequence of lines;
\* the target is the test suite's struct reduced to one textual and one
\* numeric field.
\* ------------------------------------------------------------------------

ZeroTarget == [name |-> "", port |-> 0]
OldTarget == [name |-> "old", port |-> 1]
Targets == {ZeroTarget, OldTarget}

EmptyPayload == <<>>
ValidPayload == <<"name = \"test-project\"", "port = 8080">>
SyntaxPayload == <<"[section", "name = \"x\"">>
MismatchPayload == <<"port = \"abc\"">>
RootMarkerPayload == <<"name = \"root\"">>
SubMarkerPayload == <<"name = \"sub\"">>

\* toml.Unmarshal: the lines are decoded in order; a key sets its field and
\* leaves the others alone; the first malformed line stops the decoding.
RECURSIVE TomlUnmarshal(_, _)
TomlUnmarshal(data, t) ==
    IF Len(data) = 0 THEN [target |-> t, err |-> Nil]
    ELSE LET line == Head(data)
         IN CASE line = "[section" -> [target |-> t, err |-> DecodeSyntaxError]
              [] line = "port = \"abc\"" -> [target |-> t, err |-> DecodeTypeError]
              [] line = "port = 8080" ->
                    TomlUnmarshal(Tail(data), [t EXCEPT !.port = 8080])
              [] line = "name = \"test-project\"" ->
                    TomlUnmarshal(Tail(data), [t EXCEPT !.name = "test-project"])
              [] line = "name = \"root\"" ->
                    TomlUnmarshal(Tail(data), [t EXCEPT !.name = "root"])
              [] line = "name = \"sub\"" ->
                    TomlUnmarshal(Tail(data), [t EXCEPT !.name = "sub"])
              [] line = "name = \"x\"" ->
                    TomlUnmarshal(Tail(data), [t EXCEPT !.name = "x"])

\* ------------------------------------------------------------------------
\* The environment: working directory, file system, PROJECT_TOML, server.
\* ------------------------------------------------------------------------

\* ProjectConfigFile = "project.toml"
ProjectConfigFile == <<"p", "r", "o", "j", "e", "c", "t", ".", "t", "o", "m", "l">>

RootDir == <<"/">>
DirA == <<"/", "a">>
DirAA == <<"/", "a", "/", "a">>

\* The directories that exist (no symbolic links).
Directories == {RootDir, DirA, DirAA}

File(payload) == [kind |-> "file", data |-> payload]
Denied == [kind |-> "denied", data |-> <<>>]
Absent == [kind |-> "absent", data |-> <<>>]
Directory == [kind |-> "dir", data |-> <<>>]

\* Configuration files that are always there.
ConfigFiles ==
    ( <<"/", "a", "a">> :> File(ValidPayload)
   @@ <<"/", "a", ".">> :> File(EmptyPayload)
   @@ <<"/", ".", "a">> :> File(SyntaxPayload)
   @@ <<"/", "a", "a", "a">> :> File(MismatchPayload)
   @@ <<"/", "a", ".", "a">> :> Denied
   @@ <<"/", ".", ".", "a">> :> File(ValidPayload)
   @@ <<"/", "a", "/", "a", "a">> :> File(ValidPayload)
   @@ <<"/", "a", "/", "a", ".">> :> File(EmptyPayload) )

\* What each directory may hold under the marker name.
MarkerChoices ==
    {m \in [Directories ->
                {Absent, File(RootMarkerPayload), File(SubMarkerPayload), File(SyntaxPayload),
                 Denied}] :
        /\ m[RootDir] \in {Absent, File(RootMarkerPayload)}
        /\ m[DirA] \in {Absent, File(SubMarkerPayload), File(SyntaxPayload)}
        /\ m[DirAA] \in {Absent, File(SubMarkerPayload), Denied}}

NoMarkers == [d \in Directories |-> Absent]

\* The path of the marker in an existing directory.
MarkerPath(d) ==
    IF d = RootDir THEN d \o ProjectConfigFile
    ELSE d \o <<Separator>> \o ProjectConfigFile

\* HTTP status codes a server answers with; http.StatusOK
StatusOK == 200
Statuses == {200, 204, 500}

\* fmt's %d of a status code
StatusText(code) ==
    CASE code = 200 -> "200"
      [] code = 204 -> "204"
      [] code = 500 -> "500"

\* URLs: the empty string, one net/http cannot parse, and two servers.
BadURL == "http://[::1"
URLs == {"", BadURL, "http://one/config.toml", "http://two/config.toml"}

\* http.NewRequestWithContext fails on a URL that does not parse.
URLParses(u) == u # BadURL

NoResponse == [status |-> 0, body |-> <<>>, readOK |-> FALSE, closeOK |-> FALSE]

\* What the network can do with one request: fail, or answer with a status,
\* a body, and a body stream that may break while read or closed.  A body
\* that is never delivered is the same whatever it holds.
Responses ==
    {r \in [status : Statuses,
            body : {EmptyPayload, ValidPayload, SyntaxPayload, MismatchPayload},
            readOK : BOOLEAN, closeOK : BOOLEAN] :
        /\ (r.status # StatusOK \/ ~r.readOK) => r.body = ValidPayload
        /\ r.status # StatusOK => r.readOK}

Loggers == {"nil", "logger"}

\* DefaultURLTimeout = 10 * time.Second, in seconds
DefaultURLTimeout == 10

\* How long the clock of a fetch is followed.
Horizon == 12

VARIABLES
    wd,          \* the working directory of the process
    wdAvail,     \* whether os.Getwd can determine it
    markers,     \* directory -> what it holds under the name project.toml
    env,         \* value of PROJECT_TOML ("" when unset)
    op,          \* the exported function being executed, "none" when idle
    pc,          \* position in it
    path,        \* LoadInto's argument
    startDir,    \* FindProjectRoot's argument
    url,         \* the URL being fetched
    logger,      \* the logger argument
    target,      \* the struct the caller's pointer refers to
    target0,     \* its value when the call started
    cleanPath,   \* LoadInto: cleanPath
    data,        \* bytes read from the file or the response body
    current,     \* FindProjectRoot: current
    projectRoot, \* result of FindProjectRoot
    configPath,  \* result of FindProjectRoot
    retRoot,     \* string result of LoadFromProject
    resp,        \* the *http.Response
    err,         \* the error returned
    examined,    \* paths given to os.Stat, in order
    reads,       \* paths given to os.ReadFile, in order
    decodes,     \* number of calls of toml.Unmarshal
    requests,    \* number of requests built
    sent,        \* number of requests sent
    bodyReads,   \* number of io.ReadAll calls on the body
    closes,      \* number of Body.Close calls
    logged,      \* number of lines written to the logger
    cancels,     \* number of calls of the context's cancel function
    clock,       \* seconds since fetchURL made its context
    panicked,    \* whether the call ended in a panic
    getenvs,     \* values os.Getenv("PROJECT_TOML") returned, in order
    cliFlags,    \* command line: the parsed flags
    cliPc,       \* command line: position in main, "off" when it is not run
    cliConfigPath, \* command line: configPath of runMainCommand
    cliData,     \* command line: the bytes loadInto read
    cliConfig,   \* command line: the map loadInto filled
    exitCode,    \* command line: exit status of the process, -1 while it runs
    stderr,      \* command line: what the log package has written
    running,     \* the goroutine whose call the variables above describe
    goroutines   \* goroutine -> the call of a goroutine that is not running

envVars == <<wd, wdAvail, markers, env>>

\* The file at an absolute, cleaned path.
FileAt(f) ==
    IF f \in DOMAIN ConfigFiles THEN ConfigFiles[f]
    ELSE IF \E d \in Directories : MarkerPath(d) = f
        THEN markers[CHOOSE d \in Directories : MarkerPath(d) = f]
    ELSE IF f \in Directories THEN Directory
    ELSE Absent
argVars == <<path, startDir, url, logger, target, target0>>
localVars == <<cleanPath, data, current, projectRoot, configPath, retRoot, resp, err>>
traceVars == <<examined, reads, decodes, requests, sent, bodyReads, closes, logged>>
fetchVars == <<cancels, clock, panicked>>
cliVars == <<cliFlags, cliPc, cliConfigPath, cliData, cliConfig, exitCode, stderr>>
goVars == <<running, goroutines>>
callVars == <<op, pc, argVars, localVars, traceVars, fetchVars, getenvs>>
vars == <<envVars, callVars, cliVars, goVars>>

\* ------------------------------------------------------------------------
\* The functions of config.go.
\* ------------------------------------------------------------------------

\* os.Getwd
Getwd == IF wdAvail THEN [dir |-> wd, err |-> Nil] ELSE [dir |-> <<>>, err |-> ENOENT]

\* The file a path names: the kernel resolves a relative path against the
\* working directory; without symbolic links the resolution is lexical.
Resolve(p) == IF IsAbs(p) THEN Clean(p) ELSE Clean(wd \o <<Separator>> \o p)

\* os.ReadFile
ReadFile(p) ==
    LET f == FileAt(Resolve(p))
    IN IF ~IsAbs(p) /\ ~wdAvail THEN [data |-> <<>>, err |-> ENOENT]
       ELSE CASE f.kind = "file" -> [data |-> f.data, err |-> Nil]
              [] f.kind = "denied" -> [data |-> <<>>, err |-> EACCES]
              [] f.kind = "dir" -> [data |-> <<>>, err |-> EISDIR]
              [] f.kind = "absent" -> [data |-> <<>>, err |-> ENOENT]

\* fileExists: os.Stat succeeds
fileExists(p) ==
    /\ IsAbs(p) \/ wdAvail
    /\ FileAt(Resolve(p)).kind # "absent"

\* getCleanPath without the traversal check: the relative path is joined
\* onto the working directory and returned.
getCleanPathUnchecked(p) ==
    IF IsAbs(p) THEN [path |-> Clean(p), err |-> Nil]
    ELSE IF Getwd.err # Nil
        THEN [path |-> <<>>, err |-> Errorf(<<"get", "working", "directory">>, Getwd.err)]
    ELSE [path |-> Join(Getwd.dir, p), err |-> Nil]

\* getCleanPath that returns the path as given, or glued to the working
\* directory, without filepath.Clean and filepath.Join.
getCleanPathUncleaned(p) ==
    IF IsAbs(p) THEN [path |-> p, err |-> Nil]
    ELSE IF Getwd.err # Nil
        THEN [path |-> <<>>, err |-> Errorf(<<"get", "working", "directory">>, Getwd.err)]
    ELSE IF ~Rel(Getwd.dir, Clean(Getwd.dir \o <<Separator>> \o p)).ok
        THEN [path |-> <<>>,
              err |-> Errorf(<<"could", "not", "compute", "relative", "path">>, RelError)]
    ELSE IF HasPrefix(Rel(Getwd.dir, Clean(Getwd.dir \o <<Separator>> \o p)).rel, DotDot)
        THEN [path |-> <<>>,
              err |-> [msg |-> ErrPathTraversalAttempt.msg \o <<"path">> \o p,
                       is |-> ErrPathTraversalAttempt.is]]
    ELSE [path |-> Getwd.dir \o <<Separator>> \o p, err |-> Nil]

\* getCleanPath that puts every input, absolute ones too, through the
\* traversal check.
getCleanPathChecksAbsolute(p) ==
    IF Getwd.err # Nil
        THEN [path |-> <<>>, err |-> Errorf(<<"get", "working", "directory">>, Getwd.err)]
    ELSE IF ~Rel(Getwd.dir, Clean(IF IsAbs(p) THEN p ELSE Join(Getwd.dir, p))).ok
        THEN [path |-> <<>>,
              err |-> Errorf(<<"could", "not", "compute", "relative", "path">>, RelError)]
    ELSE IF HasPrefix(Rel(Getwd.dir, Clean(IF IsAbs(p) THEN p ELSE Join(Getwd.dir, p))).rel,
                      DotDot)
        THEN [path |-> <<>>,
              err |-> [msg |-> ErrPathTraversalAttempt.msg \o <<"path">> \o p,
                       is |-> ErrPathTraversalAttempt.is]]
    ELSE [path |-> Clean(IF IsAbs(p) THEN p ELSE Join(Getwd.dir, p)), err |-> Nil]

\* getCleanPath that takes the empty path for an invalid one.
getCleanPathRejectsEmpty(p) ==
    IF p = <<>> THEN [path |-> <<>>, err |-> Errorf(<<"empty", "path">>, ENOENT)]
    ELSE IF IsAbs(p) THEN [path |-> Clean(p), err |-> Nil]
    ELSE IF Getwd.err # Nil
        THEN [path |-> <<>>, err |-> Errorf(<<"get", "working", "directory">>, Getwd.err)]
    ELSE IF ~Rel(Getwd.dir, Clean(Join(Getwd.dir, p))).ok
        THEN [path |-> <<>>,
              err |-> Errorf(<<"could", "not", "compute", "relative", "path">>, RelError)]
    ELSE IF HasPrefix(Rel(Getwd.dir, Clean(Join(Getwd.dir, p))).rel, DotDot)
        THEN [path |-> <<>>,
              err |-> [msg |-> ErrPathTraversalAttempt.msg \o <<"path">> \o p,
                       is |-> ErrPathTraversalAttempt.is]]
    ELSE [path |-> Clean(Join(Getwd.dir, p)), err |-> Nil]

\* getCleanPath
getCleanPath(p) ==
    IF IsAbs(p) THEN [path |-> Clean(p), err |-> Nil]
    ELSE LET g == Getwd
             workingDir == g.dir
             absPath == Join(workingDir, p)
             cleanedPath == Clean(absPath)
             r == Rel(workingDir, cleanedPath)
         IN IF g.err # Nil
                THEN [path |-> <<>>, err |-> Errorf(<<"get", "working", "directory">>, g.err)]
            ELSE IF ~r.ok
                THEN [path |-> <<>>,
                      err |-> Errorf(<<"could", "not", "compute", "relative", "path">>, RelError)]
            ELSE IF HasPrefix(r.rel, DotDot)
                THEN [path |-> <<>>,
                      err |-> [msg |-> ErrPathTraversalAttempt.msg \o <<"path">> \o p,
                               is |-> ErrPathTraversalAttempt.is]]
            ELSE [path |-> cleanedPath, err |-> Nil]

\* unmarshalTOML that drops the decoder's error.
unmarshalTOMLSwallows(d, t) == [target |-> TomlUnmarshal(d, t).target, err |-> Nil]

\* unmarshalTOML that takes an empty payload for a broken one.
unmarshalTOMLRejectsEmpty(d, t) ==
    IF d = <<>> THEN [target |-> t, err |-> Errorf(<<"parse", "toml">>, DecodeSyntaxError)]
    ELSE IF TomlUnmarshal(d, t).err # Nil
        THEN [target |-> TomlUnmarshal(d, t).target,
              err |-> Errorf(<<"parse", "toml">>, TomlUnmarshal(d, t).err)]
    ELSE [target |-> TomlUnmarshal(d, t).target, err |-> Nil]

\* unmarshalTOML
unmarshalTOML(d, t) ==
    LET r == TomlUnmarshal(d, t)
    IN IF r.err # Nil
           THEN [target |-> r.target, err |-> Errorf(<<"parse", "toml">>, r.err)]
       ELSE [target |-> r.target, err |-> Nil]

\* unmarshalTOML of the file that holds Load
unmarshalTOMLLoad(d, t) ==
    LET r == TomlUnmarshal(d, t)
    IN IF r.err # Nil
           THEN [target |-> r.target,
                 err |-> Errorf(<<"failed", "to", "unmarshal", "TOML", "data">>, r.err)]
       ELSE [target |-> r.target, err |-> Nil]

\* The loop guarded by "is this the root directory": the directory whose
\* parent is itself is never examined.
FindProjectRootIterRootUnchecked(cur) ==
    IF Dir(cur) = cur
        THEN [done |-> TRUE, projectRoot |-> <<>>, configPath |-> <<>>,
              err |-> ErrProjectConfigNotFound, current |-> cur]
    ELSE IF fileExists(Join(cur, ProjectConfigFile))
        THEN [done |-> TRUE, projectRoot |-> cur,
              configPath |-> Join(cur, ProjectConfigFile), err |-> Nil, current |-> cur]
    ELSE [done |-> FALSE, projectRoot |-> <<>>, configPath |-> <<>>,
          err |-> Nil, current |-> Dir(cur)]

\* The loop that ends without an error when the root has been passed.
FindProjectRootIterNoError(cur) ==
    IF fileExists(Join(cur, ProjectConfigFile))
        THEN [done |-> TRUE, projectRoot |-> cur,
              configPath |-> Join(cur, ProjectConfigFile), err |-> Nil, current |-> cur]
    ELSE IF Dir(cur) = cur
        THEN [done |-> TRUE, projectRoot |-> cur,
              configPath |-> Join(cur, ProjectConfigFile), err |-> Nil, current |-> cur]
    ELSE [done |-> FALSE, projectRoot |-> <<>>, configPath |-> <<>>,
          err |-> Nil, current |-> Dir(cur)]

\* The loop that stops only at the directory named "/".
FindProjectRootIterStopsAtSlash(cur) ==
    IF fileExists(Join(cur, ProjectConfigFile))
        THEN [done |-> TRUE, projectRoot |-> cur,
              configPath |-> Join(cur, ProjectConfigFile), err |-> Nil, current |-> cur]
    ELSE IF cur = <<Separator>>
        THEN [done |-> TRUE, projectRoot |-> <<>>, configPath |-> <<>>,
              err |-> ErrProjectConfigNotFound, current |-> cur]
    ELSE [done |-> FALSE, projectRoot |-> <<>>, configPath |-> <<>>,
          err |-> Nil, current |-> Dir(cur)]

\* One iteration of the loop of FindProjectRoot at directory cur.
FindProjectRootIter(cur) ==
    LET candidate == Join(cur, ProjectConfigFile)
        parent == Dir(cur)
    IN IF fileExists(candidate)
           THEN [done |-> TRUE, projectRoot |-> cur, configPath |-> candidate,
                 err |-> Nil, current |-> cur]
       ELSE IF parent = cur
           THEN [done |-> TRUE, projectRoot |-> <<>>, configPath |-> <<>>,
                 err |-> ErrProjectConfigNotFound, current |-> cur]
       ELSE [done |-> FALSE, projectRoot |-> <<>>, configPath |-> <<>>,
             err |-> Nil, current |-> parent]

\* processResponse that takes every 2xx status for a success.
processResponseAny2xx(r) ==
    IF r.status < 200 \/ r.status > 299
        THEN [data |-> <<>>, read |-> FALSE,
              err |-> [msg |-> ErrUnexpectedHTTPStatus.msg \o <<StatusText(r.status)>>,
                       is |-> ErrUnexpectedHTTPStatus.is]]
    ELSE IF ~r.readOK
        THEN [data |-> <<>>, read |-> TRUE,
              err |-> Errorf(<<"read", "response", "body">>, BodyReadFailure)]
    ELSE [data |-> r.body, read |-> TRUE, err |-> Nil]

\* processResponse that reads the body and returns no bytes.
processResponseDropsBody(r) ==
    IF r.status # StatusOK
        THEN [data |-> <<>>, read |-> FALSE,
              err |-> [msg |-> ErrUnexpectedHTTPStatus.msg \o <<StatusText(r.status)>>,
                       is |-> ErrUnexpectedHTTPStatus.is]]
    ELSE IF ~r.readOK
        THEN [data |-> <<>>, read |-> TRUE,
              err |-> Errorf(<<"read", "response", "body">>, BodyReadFailure)]
    ELSE [data |-> <<>>, read |-> TRUE, err |-> Nil]

\* processResponse that reads the body whatever the status is.
processResponseIgnoresStatus(r) ==
    IF ~r.readOK
        THEN [data |-> <<>>, read |-> TRUE,
              err |-> Errorf(<<"read", "response", "body">>, BodyReadFailure)]
    ELSE [data |-> r.body, read |-> TRUE, err |-> Nil]

\* processResponse that hands on the error of io.ReadAll as it is.
processResponseRawReadError(r) ==
    IF r.status # StatusOK
        THEN [data |-> <<>>, read |-> FALSE,
              err |-> [msg |-> ErrUnexpectedHTTPStatus.msg \o <<StatusText(r.status)>>,
                       is |-> ErrUnexpectedHTTPStatus.is]]
    ELSE IF ~r.readOK THEN [data |-> <<>>, read |-> TRUE, err |-> BodyReadFailure]
    ELSE [data |-> r.body, read |-> TRUE, err |-> Nil]

\* processResponse
processResponse(r) ==
    IF r.status # StatusOK
        THEN [data |-> <<>>, read |-> FALSE,
              err |-> [msg |-> ErrUnexpectedHTTPStatus.msg \o <<StatusText(r.status)>>,
                       is |-> ErrUnexpectedHTTPStatus.is]]
    ELSE IF ~r.readOK
        THEN [data |-> <<>>, read |-> TRUE,
              err |-> Errorf(<<"read", "response", "body">>, BodyReadFailure)]
    ELSE [data |-> r.body, read |-> TRUE, err |-> Nil]

\* processResponse of the file that holds Load
processResponseLoad(r) ==
    IF r.status # StatusOK
        THEN [data |-> <<>>, read |-> FALSE,
              err |-> [msg |-> ErrUnexpectedHTTPStatus.msg \o <<StatusText(r.status)>>,
                       is |-> ErrUnexpectedHTTPStatus.is]]
    ELSE IF ~r.readOK
        THEN [data |-> <<>>, read |-> TRUE,
              err |-> Errorf(<<"failed", "to", "read", "response", "body">>, BodyReadFailure)]
    ELSE [data |-> r.body, read |-> TRUE, err |-> Nil]

\* ErrProjectNotFound, the sentinel of the loop guarded by isRootDirectory
ErrProjectNotFound == New("ErrProjectNotFound", <<"project.toml", "not", "found">>)

\* isRootDirectory (lines 121-126)
isRootDirectory(cur) == Dir(cur) = cur

\* checkForProjectFile (lines 111-119)
checkForProjectFile(dir) ==
    IF fileExists(Join(dir, ProjectConfigFile))
        THEN [projectRoot |-> dir, configPath |-> Join(dir, ProjectConfigFile)]
    ELSE [projectRoot |-> <<>>, configPath |-> <<>>]

\* FindProjectRoot as the loop guarded by isRootDirectory (lines 97-109),
\* from directory cur on.
RECURSIVE FindProjectRootGuarded(_)
FindProjectRootGuarded(cur) ==
    IF isRootDirectory(cur)
        THEN [projectRoot |-> <<>>, configPath |-> <<>>, err |-> ErrProjectNotFound]
    ELSE LET found == checkForProjectFile(cur)
         IN IF found.projectRoot # <<>>
                THEN [projectRoot |-> found.projectRoot, configPath |-> found.configPath,
                      err |-> Nil]
            ELSE FindProjectRootGuarded(Dir(cur))

\* Load that fetches whatever PROJECT_TOML holds, also nothing.
LoadSourceUnchecked(value) == [url |-> value, err |-> Nil]

\* Load, lines 207-210: the URL comes from PROJECT_TOML
LoadSource(value) ==
    IF value = "" THEN [url |-> "", err |-> ErrProjectTomlNotSet]
    ELSE [url |-> value, err |-> Nil]

\* ------------------------------------------------------------------------
\* The state machine: one call at a time, one step per observation of the
\* file system, the environment or the network.
\* ------------------------------------------------------------------------

NoCall ==
    /\ op = "none" /\ pc = "idle"
    /\ path = <<>> /\ startDir = <<>> /\ url = "" /\ logger = "nil"
    /\ target = ZeroTarget /\ target0 = ZeroTarget
    /\ cleanPath = <<>> /\ data = <<>> /\ current = <<>>
    /\ projectRoot = <<>> /\ configPath = <<>> /\ retRoot = <<>>
    /\ resp = NoResponse /\ err = Nil
    /\ examined = <<>> /\ reads = <<>> /\ decodes = 0
    /\ requests = 0 /\ sent = 0 /\ bodyReads = 0 /\ closes = 0 /\ logged = 0
    /\ cancels = 0 /\ clock = 0 /\ panicked = FALSE
    /\ getenvs = <<>>

\* The goroutines that can make calls side by side.
Goroutines == {1, 2}

\* The call of a goroutine that has not made one.
IdleContext ==
    [op |-> "none", pc |-> "idle",
     path |-> <<>>, startDir |-> <<>>, url |-> "", logger |-> "nil",
     target |-> ZeroTarget, target0 |-> ZeroTarget,
     cleanPath |-> <<>>, data |-> <<>>, current |-> <<>>,
     projectRoot |-> <<>>, configPath |-> <<>>, retRoot |-> <<>>,
     resp |-> NoResponse, err |-> Nil,
     examined |-> <<>>, reads |-> <<>>, decodes |-> 0,
     requests |-> 0, sent |-> 0, bodyReads |-> 0, closes |-> 0, logged |-> 0,
     cancels |-> 0, clock |-> 0, getenvs |-> <<>>]

\* One goroutine makes the call; no other is there.
OneGoroutine ==
    /\ running = 1
    /\ goroutines = [g \in Goroutines |-> IdleContext]

\* The command line tool is not run.
NoCLI ==
    /\ cliFlags = [configPath |-> <<>>, validate |-> FALSE, get |-> <<>>, list |-> FALSE,
                findRoot |-> FALSE, help |-> FALSE]
    /\ cliPc = "off"
    /\ cliConfigPath = <<>> /\ cliData = <<>> /\ cliConfig = <<>>
    /\ exitCode = -1
    /\ stderr = <<>>

\* The file operations never read PROJECT_TOML and the URL operations never
\* read the file system, so the two parts of the environment vary one at a
\* time.
Init ==
    /\ \/ /\ wd \in {RootDir, DirA}
          /\ wdAvail \in BOOLEAN
          /\ wdAvail \/ wd = DirA
          /\ markers \in MarkerChoices
          /\ env = ""
       \/ /\ wd = RootDir
          /\ wdAvail = TRUE
          /\ markers = NoMarkers
          /\ env \in (URLs \ {""})
    /\ NoCall
    /\ OneGoroutine
    /\ NoCLI

\* LoadInto(path, target)
CallLoadInto(p, t) ==
    /\ pc = "idle"
    /\ op' = "LoadInto" /\ pc' = "getCleanPath"
    /\ path' = p /\ target' = t /\ target0' = t
    /\ UNCHANGED <<cliVars, goVars, getenvs, fetchVars, envVars, startDir, url, logger, localVars, traceVars>>

\* FindProjectRoot(startDir)
CallFindProjectRoot(d) ==
    /\ pc = "idle"
    /\ op' = "FindProjectRoot" /\ pc' = "fileExists"
    /\ startDir' = d /\ current' = d
    /\ UNCHANGED <<cliVars, goVars, getenvs, fetchVars, envVars, path, url, logger, target, target0, cleanPath, data,
                   projectRoot, configPath, retRoot, resp, err, traceVars>>

\* LoadFromProject(startDir, target)
CallLoadFromProject(d, t) ==
    /\ pc = "idle"
    /\ op' = "LoadFromProject" /\ pc' = "fileExists"
    /\ startDir' = d /\ current' = d /\ target' = t /\ target0' = t
    /\ UNCHANGED <<cliVars, goVars, getenvs, fetchVars, envVars, path, url, logger, cleanPath, data,
                   projectRoot, configPath, retRoot, resp, err, traceVars>>

\* LoadFromURL(url, target, log)
CallLoadFromURL(u, t, lg) ==
    /\ pc = "idle"
    /\ op' = "LoadFromURL" /\ pc' = "NewRequest"
    /\ url' = u /\ target' = t /\ target0' = t /\ logger' = lg
    /\ UNCHANGED <<cliVars, goVars, getenvs, fetchVars, envVars, path, startDir, localVars, traceVars>>

\* Load(target, logger)
CallLoad(t, lg) ==
    /\ pc = "idle"
    /\ op' = "Load" /\ pc' = "Getenv"
    /\ target' = t /\ target0' = t /\ logger' = lg
    /\ UNCHANGED <<cliVars, goVars, getenvs, fetchVars, envVars, path, startDir, url, localVars, traceVars>>

\* LoadFromProject that returns the directory the search started from.
LoadFromProjectResultStartDir(e) ==
    IF e # Nil THEN [root |-> <<>>, err |-> Errorf(<<"load", "config">>, e)]
    ELSE [root |-> startDir, err |-> Nil]

\* LoadFromProject that returns the root it found together with the error.
LoadFromProjectResultKeepsRoot(e) ==
    IF e # Nil THEN [root |-> projectRoot, err |-> Errorf(<<"load", "config">>, e)]
    ELSE [root |-> projectRoot, err |-> Nil]

\* LoadFromProject that reports a marker it cannot load as not found.
LoadFromProjectResultNotFound(e) ==
    IF e # Nil
        THEN [root |-> <<>>, err |-> Errorf(<<"find", "project", "root">>, ErrProjectConfigNotFound)]
    ELSE [root |-> projectRoot, err |-> Nil]

\* What LoadFromProject makes of the error of LoadInto (lines 398-403).
LoadFromProjectResult(e) ==
    IF e # Nil THEN [root |-> <<>>, err |-> Errorf(<<"load", "config">>, e)]
    ELSE [root |-> projectRoot, err |-> Nil]

\* LoadInto returns e; under LoadFromProject its caller returns in turn.
LoadIntoReturns(e) ==
    /\ pc' = "done"
    /\ IF op = "LoadFromProject"
           THEN /\ err' = LoadFromProjectResult(e).err
                /\ retRoot' = LoadFromProjectResult(e).root
       ELSE /\ err' = e
            /\ retRoot' = retRoot

\* LoadInto, lines 317-320
GetCleanPathStep ==
    /\ pc = "getCleanPath"
    /\ LET r == getCleanPath(path)
       IN IF r.err # Nil
              THEN /\ LoadIntoReturns(Errorf(<<"get", "clean", "path">>, r.err))
                   /\ UNCHANGED cleanPath
          ELSE /\ cleanPath' = r.path
               /\ pc' = "ReadFile"
               /\ UNCHANGED <<err, retRoot>>
    /\ UNCHANGED <<cliVars, goVars, getenvs, fetchVars, envVars, op, argVars, data, current, projectRoot, configPath, resp,
                   traceVars>>

\* LoadInto that goes on to decode after a failed read.
LoadIntoReadIgnoresError(r) == [failed |-> FALSE, data |-> r.data, err |-> Nil]

\* LoadInto, lines 322-325: a failed read ends the call
LoadIntoRead(r) ==
    IF r.err # Nil
        THEN [failed |-> TRUE, data |-> <<>>, err |-> Errorf(<<"read", "config", "file">>, r.err)]
    ELSE [failed |-> FALSE, data |-> r.data, err |-> Nil]

\* LoadInto: os.ReadFile(cleanPath)
ReadFileStep ==
    /\ pc = "ReadFile"
    /\ reads' = Append(reads, cleanPath)
    /\ LET r == LoadIntoRead(ReadFile(cleanPath))
       IN IF r.failed
              THEN /\ LoadIntoReturns(r.err)
                   /\ UNCHANGED data
          ELSE /\ data' = r.data
               /\ pc' = "unmarshalTOML"
               /\ UNCHANGED <<err, retRoot>>
    /\ UNCHANGED <<cliVars, goVars, getenvs, fetchVars, envVars, op, argVars, cleanPath, current, projectRoot, configPath, resp,
                   examined, decodes, requests, sent, bodyReads, closes, logged>>

\* The decode step that ends LoadInto (line 327), LoadFromURL (line 413)
\* and Load (lines 217-222).
UnmarshalStep ==
    /\ pc = "unmarshalTOML"
    /\ decodes' = decodes + 1
    /\ IF op = "Load"
           THEN LET r == unmarshalTOMLLoad(data, target)
                IN /\ target' = r.target
                   /\ err' = IF r.err # Nil
                                 THEN Errorf(<<"failed", "to", "unmarshal", "TOML">>, r.err)
                             ELSE Nil
                   /\ pc' = "done"
                   /\ UNCHANGED retRoot
       ELSE LET r == unmarshalTOML(data, target)
            IN /\ target' = r.target
               /\ IF op = "LoadFromURL"
                      THEN err' = r.err /\ pc' = "done" /\ UNCHANGED retRoot
                  ELSE LoadIntoReturns(r.err)
    /\ UNCHANGED <<cliVars, goVars, getenvs, fetchVars, envVars, op, path, startDir, url, logger, target0, cleanPath, data,
                   current, projectRoot, configPath, resp,
                   examined, reads, requests, sent, bodyReads, closes, logged>>

\* One iteration of FindProjectRoot (lines 369-381); LoadFromProject goes on
\* with LoadInto(configPath) or returns the wrapped error (lines 393-398).
FileExistsStep ==
    /\ pc = "fileExists"
    /\ examined' = Append(examined, Join(current, ProjectConfigFile))
    /\ LET r == FindProjectRootIter(current)
       IN /\ current' = r.current
          /\ projectRoot' = r.projectRoot
          /\ configPath' = r.configPath
          /\ IF ~r.done
                 THEN UNCHANGED <<pc, err, path>>
             ELSE IF op = "FindProjectRoot"
                 THEN pc' = "done" /\ err' = r.err /\ UNCHANGED path
             ELSE IF r.err # Nil
                 THEN /\ pc' = "done"
                      /\ err' = Errorf(<<"find", "project", "root">>, r.err)
                      /\ UNCHANGED path
             ELSE pc' = "getCleanPath" /\ path' = r.configPath /\ UNCHANGED err
    /\ UNCHANGED <<cliVars, goVars, getenvs, fetchVars, envVars, op, startDir, url, logger, target, target0, cleanPath, data,
                   retRoot, resp, reads, decodes, requests, sent, bodyReads, closes, logged>>

\* Load, lines 207-210: read PROJECT_TOML
GetenvStep ==
    /\ pc = "Getenv"
    /\ getenvs' = Append(getenvs, env)
    /\ LET r == LoadSource(env)
       IN IF r.err # Nil
              THEN pc' = "done" /\ err' = r.err /\ UNCHANGED url
          ELSE pc' = "NewRequest" /\ url' = r.url /\ UNCHANGED err
    /\ UNCHANGED <<cliVars, goVars, fetchVars, envVars, op, path, startDir, logger, target, target0,
                   cleanPath, data, current, projectRoot, configPath, retRoot, resp, traceVars>>

\* A caller of fetchURL that carries on without the error.
FetchFailedSwallowed(e) == Nil

\* A caller of fetchURL that names the present value of PROJECT_TOML.
FetchFailedRereadsEnv(e) ==
    IF op = "Load" THEN Errorf(<<"failed", "to", "fetch", "TOML", "from", env>>, e)
    ELSE e

\* What the caller of fetchURL returns when fetchURL fails with e:
\* LoadFromURL returns it as it is (lines 408-411), Load wraps it with the
\* URL (lines 212-215).
FetchFailed(e) ==
    IF op = "Load" THEN Errorf(<<"failed", "to", "fetch", "TOML", "from", url>>, e)
    ELSE e

\* fetchURL that builds its request on context.Background().
fetchURLContextBackground == [bounded |-> FALSE, timeout |-> 0]

\* fetchURL, lines 417 and 227: context.WithTimeout(context.Background(),
\* DefaultURLTimeout)
fetchURLContext == [bounded |-> TRUE, timeout |-> DefaultURLTimeout]

\* The deadline of the context has passed: the blocked call returns.
Expired == fetchURLContext.bounded /\ clock >= fetchURLContext.timeout

\* fetchURL that closes the body only after processResponse succeeded.
fetchURLDefersCloseOnSuccess(obtained, e) == [close |-> obtained /\ e = Nil, cancel |-> TRUE]

\* The deferred calls that run when fetchURL returns with e: cancel (lines
\* 418, 228) always, resp.Body.Close (lines 430-435, 240-245) once a
\* response was obtained.
fetchURLDefers(obtained, e) == [close |-> obtained, cancel |-> TRUE]

\* fetchURL: http.NewRequestWithContext (lines 420-423, 230-233)
NewRequestStep ==
    /\ pc = "NewRequest"
    /\ requests' = requests + 1
    /\ IF ~URLParses(url)
           THEN LET e == IF op = "Load"
                             THEN Errorf(<<"failed", "to", "create", "HTTP", "request">>,
                                         URLParseError)
                         ELSE Errorf(<<"create", "http", "request">>, URLParseError)
                    d == fetchURLDefers(FALSE, e)
                IN /\ pc' = "done"
                   /\ err' = FetchFailed(e)
                   /\ closes' = IF d.close THEN closes + 1 ELSE closes
                   /\ cancels' = IF d.cancel THEN cancels + 1 ELSE cancels
       ELSE pc' = "Do" /\ UNCHANGED <<err, closes, cancels>>
    /\ UNCHANGED <<cliVars, goVars, getenvs, envVars, op, argVars, cleanPath, data, current, projectRoot, configPath,
                   retRoot, resp, examined, reads, decodes, sent, bodyReads, logged,
                   clock, panicked>>

\* A second passes while http.DefaultClient.Do waits for the response
\* (line 425) or io.ReadAll for the body (line 445).
Tick ==
    /\ \/ pc = "Do" /\ url # ""
       \/ pc = "processResponse" /\ resp.status = StatusOK
    /\ ~Expired
    /\ clock < Horizon
    /\ clock' = clock + 1
    /\ UNCHANGED <<cliVars, goVars, getenvs, envVars, op, pc, argVars, localVars, traceVars, cancels, panicked>>

\* fetchURL: the transport fails or the deadline passes (lines 425-428,
\* 235-238)
DoFails ==
    /\ pc = "Do"
    /\ sent' = sent + 1
    /\ pc' = "done"
    /\ LET cause == IF Expired THEN DeadlineExceeded ELSE TransportFailure
           e == IF op = "Load"
                    THEN Errorf(<<"failed", "to", "execute", "HTTP", "request">>, cause)
                ELSE Errorf(<<"fetch", "toml", "from", "url">>, cause)
           d == fetchURLDefers(FALSE, e)
       IN /\ err' = FetchFailed(e)
          /\ closes' = IF d.close THEN closes + 1 ELSE closes
          /\ cancels' = IF d.cancel THEN cancels + 1 ELSE cancels
    /\ UNCHANGED <<cliVars, goVars, getenvs, envVars, op, argVars, cleanPath, data, current, projectRoot, configPath,
                   retRoot, resp, examined, reads, decodes, requests, bodyReads,
                   logged, clock, panicked>>

\* fetchURL: the server answers before the deadline (lines 425, 235); the
\* empty URL has no scheme and is never sent anywhere
DoAnswers(r) ==
    /\ pc = "Do"
    /\ url # ""
    /\ ~Expired
    /\ sent' = sent + 1
    /\ resp' = r
    /\ pc' = "processResponse"
    /\ UNCHANGED <<cliVars, goVars, getenvs, envVars, op, argVars, cleanPath, data, current, projectRoot, configPath,
                   retRoot, err, examined, reads, decodes, requests, bodyReads, closes,
                   logged, fetchVars>>

\* fetchURL: processResponse(resp) (lines 437, 247-250); the body stream
\* breaks when the deadline passes while it is read
ProcessResponseStep ==
    /\ pc = "processResponse"
    /\ LET stream == [resp EXCEPT !.readOK = resp.readOK /\ ~Expired]
           r == IF op = "Load" THEN processResponseLoad(stream) ELSE processResponse(stream)
       IN /\ data' = r.data
          /\ bodyReads' = IF r.read THEN bodyReads + 1 ELSE bodyReads
          /\ err' = IF r.err # Nil /\ op = "Load"
                        THEN Errorf(<<"failed", "to", "process", "HTTP", "response">>, r.err)
                    ELSE r.err
    /\ pc' = "Close"
    /\ UNCHANGED <<cliVars, goVars, getenvs, envVars, op, argVars, cleanPath, current, projectRoot, configPath,
                   retRoot, resp, examined, reads, decodes, requests, sent, closes, logged,
                   fetchVars>>

\* fetchURL returns after processResponse: the deferred resp.Body.Close()
\* (lines 430-435, 240-245), whose failure is written to the logger, then
\* cancel, then the return to the caller
CloseStep ==
    /\ pc = "Close"
    /\ LET d == fetchURLDefers(TRUE, err)
       IN /\ closes' = IF d.close THEN closes + 1 ELSE closes
          /\ cancels' = IF d.cancel THEN cancels + 1 ELSE cancels
          /\ logged' = IF d.close /\ ~resp.closeOK /\ logger # "nil"
                           THEN logged + 1
                       ELSE logged
    /\ IF err # Nil
           THEN pc' = "done" /\ err' = FetchFailed(err)
       ELSE pc' = "unmarshalTOML" /\ UNCHANGED err
    /\ UNCHANGED <<cliVars, goVars, getenvs, envVars, op, argVars, cleanPath, data, current, projectRoot, configPath,
                   retRoot, resp, examined, reads, decodes, requests, sent, bodyReads,
                   clock, panicked>>

\* The same return when Close fails and the logger is nil: log.Warn
\* (line 433) and logger.Error (line 243) are methods of a package outside
\* this repository; called on a nil *logger.Logger they return or
\* dereference it.  The panic unwinds through the deferred cancel and the
\* callers.
ClosePanics ==
    /\ pc = "Close"
    /\ fetchURLDefers(TRUE, err).close
    /\ ~resp.closeOK
    /\ logger = "nil"
    /\ closes' = closes + 1
    /\ cancels' = IF fetchURLDefers(TRUE, err).cancel THEN cancels + 1 ELSE cancels
    /\ panicked' = TRUE
    /\ pc' = "panic"
    /\ UNCHANGED <<cliVars, goVars, getenvs, envVars, op, argVars, localVars, examined, reads, decodes, requests,
                   sent, bodyReads, logged, clock>>

\* A call starts when none is in progress; the steps of the call follow.
Next ==
    \/ pc = "idle" /\ \E p \in PathInputs, t \in Targets : CallLoadInto(p, t)
    \/ pc = "idle" /\ \E d \in PathInputs : CallFindProjectRoot(d)
    \/ pc = "idle" /\ \E d \in PathInputs, t \in Targets : CallLoadFromProject(d, t)
    \/ pc = "idle" /\ \E u \in URLs, t \in Targets, lg \in Loggers : CallLoadFromURL(u, t, lg)
    \/ pc = "idle" /\ \E t \in Targets, lg \in Loggers : CallLoad(t, lg)
    \/ GetCleanPathStep
    \/ ReadFileStep
    \/ UnmarshalStep
    \/ FileExistsStep
    \/ GetenvStep
    \/ NewRequestStep
    \/ DoFails
    \/ pc = "Do" /\ \E r \in Responses : DoAnswers(r)
    \/ Tick
    \/ ProcessResponseStep
    \/ CloseStep
    \/ ClosePanics

Spec == Init /\ [][Next]_vars

\* ------------------------------------------------------------------------
\* The same calls in an environment that changes under them.
\* ------------------------------------------------------------------------

\* Another part of the process sets or unsets PROJECT_TOML while Load
\* (lines 206-223) is being executed.
Setenv(v) ==
    /\ op = "Load"
    /\ pc \in {"Getenv", "NewRequest", "Do", "processResponse", "Close", "unmarshalTOML"}
    /\ v # env
    /\ env' = v
    /\ UNCHANGED <<wd, wdAvail, markers, op, pc, argVars, localVars, traceVars, fetchVars,
                   getenvs, cliVars, goVars>>

\* The marker FindProjectRoot has found is removed or replaced by a
\* directory after LoadFromProject's discovery (line 393) and before its
\* LoadInto has read the file (lines 398, 322).
MarkerChanges(f) ==
    /\ op = "LoadFromProject"
    /\ pc \in {"getCleanPath", "ReadFile"}
    /\ Resolve(projectRoot) \in Directories
    /\ markers[Resolve(projectRoot)] # f
    /\ markers' = [markers EXCEPT ![Resolve(projectRoot)] = f]
    /\ UNCHANGED <<wd, wdAvail, env, op, pc, argVars, localVars, traceVars, fetchVars,
                   getenvs, cliVars, goVars>>

NextEnv ==
    \/ Next
    \/ \E v \in URLs : Setenv(v)
    \/ \E f \in {Absent, Directory} : MarkerChanges(f)

SpecEnv == Init /\ [][NextEnv]_vars

\* ------------------------------------------------------------------------
\* The command line tool, cmd/configurator/main.go lines 290-920: it reads
\* and parses the file itself.
\* ------------------------------------------------------------------------

\* Exit codes (lines 308-309).
ExitSuccess == 0
ExitError == 1

\* TwoFields = 2
TwoFields == 2

\* The sentinels of the tool (lines 388-396).
errProjectNotFound == New("errProjectNotFound", <<"project.toml", "not", "found">>)
errWorkingDir == New("errWorkingDir", <<"failed", "to", "get", "working", "directory">>)
errReadConfig == New("errReadConfig", <<"failed", "to", "read", "config", "file">>)
errFindRoot == New("errFindRoot", <<"failed", "to", "find", "project", "root">>)
errLoadConfig == New("errLoadConfig", <<"failed", "to", "load", "config">>)

\* The characters of the lines the payloads are made of.
NameKey == <<"n", "a", "m", "e">>
PortKey == <<"p", "o", "r", "t">>
Assign == <<" ", "=", " ">>
Quoted(s) == <<"\"">> \o s \o <<"\"">>
Bytes(line) ==
    CASE line = "name = \"test-project\"" ->
            NameKey \o Assign \o Quoted(<<"t", "e", "s", "t", "-", "p", "r", "o", "j", "e", "c", "t">>)
      [] line = "port = 8080" -> PortKey \o Assign \o <<"8", "0", "8", "0">>
      [] line = "[section" -> <<"[", "s", "e", "c", "t", "i", "o", "n">>
      [] line = "name = \"x\"" -> NameKey \o Assign \o Quoted(<<"x">>)
      [] line = "port = \"abc\"" -> PortKey \o Assign \o Quoted(<<"a", "b", "c">>)
      [] line = "name = \"root\"" -> NameKey \o Assign \o Quoted(<<"r", "o", "o", "t">>)
      [] line = "name = \"sub\"" -> NameKey \o Assign \o Quoted(<<"s", "u", "b">>)

\* strings.Trim(s, cutset)
RECURSIVE TrimLeft(_, _)
TrimLeft(s, cutset) ==
    IF s # <<>> /\ Head(s) \in cutset THEN TrimLeft(Tail(s), cutset) ELSE s

RECURSIVE TrimRight(_, _)
TrimRight(s, cutset) ==
    IF s # <<>> /\ s[Len(s)] \in cutset THEN TrimRight(SubSeq(s, 1, Len(s) - 1), cutset) ELSE s

Trim(s, cutset) == TrimRight(TrimLeft(s, cutset), cutset)

\* strings.HasSuffix
HasSuffix(s, suffix) ==
    /\ Len(suffix) <= Len(s)
    /\ SubSeq(s, Len(s) - Len(suffix) + 1, Len(s)) = suffix

\* trimWhitespace: strings.TrimSpace
trimWhitespace(s) == Trim(s, {" ", "\t", "\r", "\n"})

\* removeQuotes: strings.Trim(s, QuoteChars)
removeQuotes(s) == Trim(s, {"\"", "'"})

\* splitOnEquals: strings.SplitN(s, "=", 2)
splitOnEquals(s) ==
    IF \E i \in 1..Len(s) : s[i] = "="
        THEN LET i == CHOOSE i \in 1..Len(s) : s[i] = "=" /\ \A j \in 1..(i - 1) : s[j] # "="
             IN <<SubSeq(s, 1, i - 1), SubSeq(s, i + 1, Len(s))>>
    ELSE <<s>>

hasTwoElements(parts) == Len(parts) = TwoFields

isEmptyLine(s) == s = <<>>

isCommentLine(line) == HasPrefix(line, <<"#">>)

isSectionHeader(line) == HasPrefix(line, <<"[">>) /\ HasSuffix(line, <<"]">>)

shouldSkipLine(line) == isEmptyLine(line) \/ isCommentLine(line) \/ isSectionHeader(line)

\* parseConfigLine (lines 548-560)
parseConfigLine(line) ==
    LET parts == splitOnEquals(line)
    IN IF ~hasTwoElements(parts) THEN [key |-> <<>>, value |-> <<>>, ok |-> FALSE]
       ELSE [key |-> trimWhitespace(parts[1]),
             value |-> removeQuotes(trimWhitespace(parts[2])),
             ok |-> TRUE]

\* createMap
createMap == [k \in {} |-> <<>>]

\* setNestedValue for a key of one part, as every key of the payloads is:
\* the map gets the value under the key.
setNestedValue(m, key, value) ==
    [k \in DOMAIN m \cup {key} |-> IF k = key THEN value ELSE m[k]]

\* processConfigLine (lines 514-524): a line that is not key=value is
\* passed over
processConfigLine(result, line) ==
    LET trimmed == trimWhitespace(line)
        parsed == parseConfigLine(trimmed)
    IN IF shouldSkipLine(trimmed) THEN result
       ELSE IF parsed.ok THEN setNestedValue(result, parsed.key, parsed.value)
       ELSE result

\* parseSimpleTOML (lines 495-504), over the lines of the content
RECURSIVE parseSimpleTOMLFrom(_, _)
parseSimpleTOMLFrom(lines, result) ==
    IF lines = <<>> THEN result
    ELSE parseSimpleTOMLFrom(Tail(lines), processConfigLine(result, Bytes(Head(lines))))

parseSimpleTOML(content) == parseSimpleTOMLFrom(content, createMap)

\* getCurrentDir, getWorkingDirectory: "" when os.Getwd fails
getCurrentDir == IF Getwd.err # Nil THEN <<>> ELSE Getwd.dir

\* makeAbsolutePath (lines 472-479)
makeAbsolutePath(p) == IF getCurrentDir = <<>> THEN p ELSE Join(getCurrentDir, p)

\* getCleanPath of the tool (lines 459-466): no traversal check
getCleanPathCLI(p) ==
    LET cleaned == Clean(p)
    IN IF IsAbs(cleaned) THEN cleaned ELSE makeAbsolutePath(cleaned)

\* readConfigData (lines 449-457)
readConfigData(p) ==
    LET r == ReadFile(p)
    IN IF r.err # Nil THEN [data |-> <<>>, err |-> Errorf(<<"read", "file">>, r.err)]
       ELSE [data |-> r.data, err |-> Nil]

\* loadInto (lines 431-447): the target of the tool is always a
\* *map[string]any
loadInto(p) ==
    LET r == readConfigData(getCleanPathCLI(p))
    IN IF r.err # Nil THEN [config |-> createMap, data |-> <<>>, err |-> errReadConfig]
       ELSE [config |-> parseSimpleTOML(r.data), data |-> r.data, err |-> Nil]

\* loadConfiguration (lines 710-719)
loadConfiguration(p) ==
    IF loadInto(p).err # Nil THEN [config |-> createMap, data |-> <<>>, err |-> errLoadConfig]
    ELSE loadInto(p)

\* isAtRoot
isAtRoot(cur) == cur = Dir(cur)

\* getProjectConfigPath
getProjectConfigPath(dir) == Join(dir, ProjectConfigFile)

\* findConfigInDir (lines 634-641)
findConfigInDir(dir) ==
    IF fileExists(getProjectConfigPath(dir)) THEN getProjectConfigPath(dir) ELSE <<>>

\* searchDirectoryUpwards (lines 617-628), from directory cur on
RECURSIVE searchDirectoryUpwards(_)
searchDirectoryUpwards(cur) ==
    IF isAtRoot(cur) THEN [rootDir |-> <<>>, configPath |-> <<>>, err |-> errProjectNotFound]
    ELSE IF findConfigInDir(cur) # <<>>
        THEN [rootDir |-> cur, configPath |-> findConfigInDir(cur), err |-> Nil]
    ELSE searchDirectoryUpwards(Dir(cur))

\* findProjectRoot
findProjectRoot(dir) == searchDirectoryUpwards(dir)

\* findConfigFromWorkingDirectory, findConfigInDirectory (lines 669-694)
findConfigFromWorkingDirectory ==
    IF getCurrentDir = <<>> THEN [path |-> <<>>, err |-> errWorkingDir]
    ELSE IF findProjectRoot(getCurrentDir).err # Nil THEN [path |-> <<>>, err |-> errFindRoot]
    ELSE [path |-> findProjectRoot(getCurrentDir).configPath, err |-> Nil]

\* resolveConfigPath (lines 653-659)
resolveConfigPath(f) ==
    IF f.configPath # <<>> THEN [path |-> f.configPath, err |-> Nil]
    ELSE findConfigFromWorkingDirectory

\* getConfigValue for a key of one part: nil (<<>>) when the map lacks it
getConfigValue(config, key) == IF key \in DOMAIN config THEN config[key] ELSE <<>>

\* What the log package writes, by the format constant it is given.
Line(text, e) == [text |-> text, err |-> e]

\* The flags a run of the tool is given.
CLIPaths ==
    { <<>>, <<"/", "a", "a">>, <<"/", ".", "a">>, <<"/", "a", ".">>, <<"a", "a">>, <<"/", ".">> }
CLIKeys == { <<>>, NameKey, <<"z">> }
FlagChoices ==
    [configPath : CLIPaths, validate : BOOLEAN, get : CLIKeys, list : BOOLEAN,
     findRoot : BOOLEAN, help : BOOLEAN]

\* The tool is started in some directory of some file system.
InitCLI ==
    /\ wd \in {RootDir, DirA, DirAA}
    /\ wdAvail \in BOOLEAN
    /\ markers \in MarkerChoices
    /\ env = ""
    /\ NoCall
    /\ OneGoroutine
    /\ cliFlags \in FlagChoices
    /\ cliPc = "main"
    /\ cliConfigPath = <<>> /\ cliData = <<>> /\ cliConfig = createMap
    /\ exitCode = -1
    /\ stderr = <<>>

\* fatal: log.Fatalf writes the message and calls os.Exit(1)
fatal(text, e) ==
    /\ stderr' = Append(stderr, Line(text, e))
    /\ exitCode' = ExitError
    /\ cliPc' = "exit"

\* main returns: the process exits with status 0
mainReturns ==
    /\ exitCode' = ExitSuccess
    /\ cliPc' = "exit"

\* main, shouldShowHelp (lines 784-805): -help
ShowHelp ==
    /\ cliPc = "main"
    /\ cliFlags.help
    /\ stderr' = Append(stderr, Line("HelpText", Nil))
    /\ mainReturns
    /\ UNCHANGED <<envVars, callVars, goVars, cliFlags, cliConfigPath, cliData, cliConfig>>

\* main, shouldShowProjectRoot, showProjectRoot (lines 696-708, 807-815): -find-root
ShowProjectRoot ==
    /\ cliPc = "main"
    /\ ~cliFlags.help
    /\ cliFlags.findRoot
    /\ IF Getwd.err # Nil THEN fatal("ErrorPrefix", Getwd.err)
       ELSE IF findProjectRoot(Getwd.dir).err # Nil
           THEN fatal("ErrorPrefix", findProjectRoot(Getwd.dir).err)
       ELSE /\ stderr' = Append(stderr, Line("ProjectRootMessage", Nil))
            /\ mainReturns
    /\ UNCHANGED <<envVars, callVars, goVars, cliFlags, cliConfigPath, cliData, cliConfig>>

\* runMainCommand: mustResolveConfigPath (lines 823-830)
MustResolveConfigPath ==
    /\ cliPc = "main"
    /\ ~cliFlags.help
    /\ ~cliFlags.findRoot
    /\ LET r == resolveConfigPath(cliFlags)
       IN IF r.err # Nil
              THEN fatal("ErrorPrefix", r.err) /\ UNCHANGED cliConfigPath
          ELSE /\ cliConfigPath' = r.path
               /\ cliPc' = "load"
               /\ UNCHANGED <<exitCode, stderr>>
    /\ UNCHANGED <<envVars, callVars, goVars, cliFlags, cliData, cliConfig>>

\* runMainCommand: mustLoadConfiguration (lines 832-839)
MustLoadConfiguration ==
    /\ cliPc = "load"
    /\ LET r == loadConfiguration(cliConfigPath)
       IN IF r.err # Nil
              THEN fatal("ErrorLoadingConfig", r.err) /\ UNCHANGED <<cliData, cliConfig>>
          ELSE /\ cliData' = r.data
               /\ cliConfig' = r.config
               /\ cliPc' = "execute"
               /\ UNCHANGED <<exitCode, stderr>>
    /\ UNCHANGED <<envVars, callVars, goVars, cliFlags, cliConfigPath>>

\* executeCommand with -validate: handleValidateCommand (lines 721-729,
\* 759-761)
ValidateCommand ==
    /\ cliPc = "execute"
    /\ cliFlags.validate
    /\ stderr' = Append(stderr, Line("ConfigurationValid", Nil))
    /\ mainReturns
    /\ UNCHANGED <<envVars, callVars, goVars, cliFlags, cliConfigPath, cliData, cliConfig>>

\* executeDataCommand with -list: the keys are printed in the order the map
\* is iterated in (lines 763-768, 845-865)
ListCommand ==
    /\ cliPc = "execute"
    /\ ~cliFlags.validate
    /\ cliFlags.list
    /\ \E order \in [1..Cardinality(DOMAIN cliConfig) -> DOMAIN cliConfig] :
          /\ \A i, j \in DOMAIN order : order[i] = order[j] => i = j
          /\ stderr' = stderr \o [i \in DOMAIN order |-> Line(order[i], Nil)]
    /\ mainReturns
    /\ UNCHANGED <<envVars, callVars, goVars, cliFlags, cliConfigPath, cliData, cliConfig>>

\* executeDataCommand with -get (lines 770-777)
GetCommand ==
    /\ cliPc = "execute"
    /\ ~cliFlags.validate
    /\ ~cliFlags.list
    /\ cliFlags.get # <<>>
    /\ IF getConfigValue(cliConfig, cliFlags.get) = <<>>
           THEN fatal("KeyNotFoundError", Nil)
       ELSE /\ stderr' = Append(stderr, Line(getConfigValue(cliConfig, cliFlags.get), Nil))
            /\ mainReturns
    /\ UNCHANGED <<envVars, callVars, goVars, cliFlags, cliConfigPath, cliData, cliConfig>>

\* executeDataCommand without a command: showDefaultOutput (lines 779-782)
DefaultCommand ==
    /\ cliPc = "execute"
    /\ ~cliFlags.validate
    /\ ~cliFlags.list
    /\ cliFlags.get = <<>>
    /\ stderr' = stderr \o <<Line("ConfigLoadedMessage", Nil), Line("UseHelpMessage", Nil)>>
    /\ mainReturns
    /\ UNCHANGED <<envVars, callVars, goVars, cliFlags, cliConfigPath, cliData, cliConfig>>

NextCLI ==
    \/ ShowHelp
    \/ ShowProjectRoot
    \/ MustResolveConfigPath
    \/ MustLoadConfiguration
    \/ ValidateCommand
    \/ ListCommand
    \/ GetCommand
    \/ DefaultCommand

SpecCLI == InitCLI /\ [][NextCLI]_vars

\* ------------------------------------------------------------------------
\* Calls made side by side: every goroutine makes one call; between any two
\* steps the scheduler may let another goroutine run.  Arguments, locals
\* and results belong to the call; the working directory, the file system,
\* the server and the process are common to all.
\* ------------------------------------------------------------------------

\* The call the variables describe.
Context ==
    [op |-> op, pc |-> pc, path |-> path, startDir |-> startDir, url |-> url,
     logger |-> logger, target |-> target, target0 |-> target0,
     cleanPath |-> cleanPath, data |-> data, current |-> current,
     projectRoot |-> projectRoot, configPath |-> configPath, retRoot |-> retRoot,
     resp |-> resp, err |-> err, examined |-> examined, reads |-> reads,
     decodes |-> decodes, requests |-> requests, sent |-> sent,
     bodyReads |-> bodyReads, closes |-> closes, logged |-> logged,
     cancels |-> cancels, clock |-> clock, getenvs |-> getenvs]

\* The call of goroutine g.
CallOf(g) == IF g = running THEN Context ELSE goroutines[g]

\* The scheduler lets goroutine g run on.  After a panic that nothing
\* recovers the process is gone and no goroutine runs.
Switch(g) ==
    /\ g # running
    /\ ~panicked
    /\ goroutines' = [goroutines EXCEPT ![running] = Context, ![g] = IdleContext]
    /\ running' = g
    /\ op' = goroutines[g].op
    /\ pc' = goroutines[g].pc
    /\ path' = goroutines[g].path
    /\ startDir' = goroutines[g].startDir
    /\ url' = goroutines[g].url
    /\ logger' = goroutines[g].logger
    /\ target' = goroutines[g].target
    /\ target0' = goroutines[g].target0
    /\ cleanPath' = goroutines[g].cleanPath
    /\ data' = goroutines[g].data
    /\ current' = goroutines[g].current
    /\ projectRoot' = goroutines[g].projectRoot
    /\ configPath' = goroutines[g].configPath
    /\ retRoot' = goroutines[g].retRoot
    /\ resp' = goroutines[g].resp
    /\ err' = goroutines[g].err
    /\ examined' = goroutines[g].examined
    /\ reads' = goroutines[g].reads
    /\ decodes' = goroutines[g].decodes
    /\ requests' = goroutines[g].requests
    /\ sent' = goroutines[g].sent
    /\ bodyReads' = goroutines[g].bodyReads
    /\ closes' = goroutines[g].closes
    /\ logged' = goroutines[g].logged
    /\ cancels' = goroutines[g].cancels
    /\ clock' = goroutines[g].clock
    /\ getenvs' = goroutines[g].getenvs
    /\ UNCHANGED <<envVars, panicked, cliVars>>

\* The arguments of the calls made side by side.
ConcurrentPaths == { <<"/", "a", "a">>, <<"/", ".", "a">> }
ConcurrentDirs == { DirA }
ConcurrentURLs == { "http://one/config.toml", "http://two/config.toml" }

\* The server that does not change: it answers every request for a URL in
\* the same way; the body stream of the second cannot be closed cleanly.
ServerAnswer(u) ==
    [status |-> StatusOK, body |-> ValidPayload, readOK |-> TRUE,
     closeOK |-> u = "http://one/config.toml"]

InitConcurrent ==
    /\ wd = DirA
    /\ wdAvail = TRUE
    /\ markers \in MarkerChoices
    /\ env = ""
    /\ NoCall
    /\ OneGoroutine
    /\ NoCLI

NextConcurrent ==
    \/ pc = "idle" /\ \E p \in ConcurrentPaths : CallLoadInto(p, OldTarget)
    \/ pc = "idle" /\ \E d \in ConcurrentDirs : CallFindProjectRoot(d)
    \/ pc = "idle" /\ \E d \in ConcurrentDirs : CallLoadFromProject(d, OldTarget)
    \/ pc = "idle" /\ \E u \in ConcurrentURLs, lg \in Loggers : CallLoadFromURL(u, OldTarget, lg)
    \/ GetCleanPathStep
    \/ ReadFileStep
    \/ UnmarshalStep
    \/ FileExistsStep
    \/ NewRequestStep
    \/ pc = "Do" /\ DoAnswers(ServerAnswer(url))
    \/ ProcessResponseStep
    \/ CloseStep
    \/ ClosePanics
    \/ \E g \in Goroutines : Switch(g)

SpecConcurrent == InitConcurrent /\ [][NextConcurrent]_vars

\* LoadInto (lines 316-328) run from call to return.
LoadIntoAlone(p, t) ==
    LET c == getCleanPath(p)
        r == LoadIntoRead(ReadFile(c.path))
        u == unmarshalTOML(r.data, t)
    IN IF c.err # Nil
           THEN [err |-> Errorf(<<"get", "clean", "path">>, c.err), target |-> t]
       ELSE IF r.failed THEN [err |-> r.err, target |-> t]
       ELSE [err |-> u.err, target |-> u.target]

\* FindProjectRoot (lines 367-382) run from directory cur to its return.
RECURSIVE FindProjectRootAlone(_)
FindProjectRootAlone(cur) ==
    IF FindProjectRootIter(cur).done THEN FindProjectRootIter(cur)
    ELSE FindProjectRootAlone(FindProjectRootIter(cur).current)

\* LoadFromProject (lines 392-404) run from call to return.
LoadFromProjectAlone(d, t) ==
    LET f == FindProjectRootAlone(d)
        l == LoadIntoAlone(f.configPath, t)
    IN IF f.err # Nil
           THEN [root |-> <<>>, err |-> Errorf(<<"find", "project", "root">>, f.err),
                 target |-> t]
       ELSE IF l.err # Nil
           THEN [root |-> <<>>, err |-> Errorf(<<"load", "config">>, l.err),
                 target |-> l.target]
       ELSE [root |-> f.projectRoot, err |-> Nil, target |-> l.target]

\* LoadFromURL (lines 407-414) run from call to return against the server
\* that does not change.
LoadFromURLAlone(u, t) ==
    LET r == processResponse(ServerAnswer(u))
        d == unmarshalTOML(r.data, t)
    IN IF ~URLParses(u)
           THEN [err |-> Errorf(<<"create", "http", "request">>, URLParseError), target |-> t]
       ELSE IF r.err # Nil THEN [err |-> r.err, target |-> t]
       ELSE [err |-> d.err, target |-> d.target]

\* ------------------------------------------------------------------------
\* Properties.
\* ------------------------------------------------------------------------

\* q is dir or lies below it
Within(dir, q) ==
    \/ q = dir
    \/ HasPrefix(q, IF dir = RootDir THEN dir ELSE dir \o <<Separator>>)

\* LoadInto has got past getCleanPath (LoadFromProject calls LoadInto)
PathResolved ==
    /\ op \in {"LoadInto", "LoadFromProject"}
    /\ pc \in {"ReadFile", "unmarshalTOML", "done"}

\* The relative path given to LoadInto leaves the working directory.
EscapingInput ==
    /\ PathResolved
    /\ ~IsAbs(path)
    /\ wdAvail
    /\ ~Within(wd, Resolve(path))
    /\ op = "LoadFromProject" => configPath # <<>>

\* C1: a relative input whose canonical form, joined onto the working
\* directory, is neither the working directory nor below it is rejected with
\* ErrPathTraversalAttempt: no path is returned and no file is read.
C1_TraversalRejected ==
    EscapingInput =>
        /\ pc = "done"
        /\ ErrorsIs(err, "ErrPathTraversalAttempt")
        /\ cleanPath = <<>>
        /\ reads = <<>>
        /\ decodes = 0

C1_Witness ==
    /\ op = "LoadInto"
    /\ EscapingInput
    /\ pc = "done"
    /\ ErrorsIs(err, "ErrPathTraversalAttempt")

\* The elements of an absolute path after its root; the root has none.
ElementsOf(p) == IF p = RootDir THEN <<>> ELSE Tail(Split(p))

\* No empty element (repeated or trailing separator), no "." and no "..".
Canonical(p) ==
    /\ IsAbs(p)
    /\ \A i \in 1..Len(ElementsOf(p)) :
          /\ ElementsOf(p)[i] # <<>>
          /\ ElementsOf(p)[i] # Dot
          /\ ElementsOf(p)[i] # DotDot

\* C2: every path getCleanPath returns is absolute and canonical: no "."
\* element, no ".." element, no repeated and no trailing separator (the
\* root directory is the single separator).
C2_ResolvedPathCanonical ==
    (PathResolved /\ cleanPath # <<>>) => Canonical(cleanPath)

C2_Witness ==
    /\ op = "LoadInto"
    /\ pc = "ReadFile"
    /\ ~IsAbs(path)
    /\ \E i \in 1..Len(Split(path)) : Split(path)[i] \in {<<>>, Dot, DotDot}
    /\ Canonical(cleanPath)

\* The chain of directories filepath.Dir leads through, from d to the
\* directory that is its own parent.
RECURSIVE Chain(_)
Chain(d) == IF Dir(d) = d THEN <<d>> ELSE <<d>> \o Chain(Dir(d))

\* Directory d holds an entry named project.toml.
MarkerIn(d) ==
    /\ IsAbs(d) \/ wdAvail
    /\ FileAt(Clean(Resolve(d) \o <<Separator>> \o ProjectConfigFile)).kind # "absent"

\* For each directory of the chain of d, whether it holds the marker.
MarkersOn(d) == [i \in 1..Len(Chain(d)) |-> MarkerIn(Chain(d)[i])]

\* Position of the first TRUE of a sequence of booleans, 0 when there is none.
RECURSIVE FirstTrue(_, _)
FirstTrue(flags, i) ==
    IF i > Len(flags) THEN 0
    ELSE IF flags[i] THEN i
    ELSE FirstTrue(flags, i + 1)

\* Position on the chain of startDir of the nearest directory that holds
\* the marker, 0 when none does.
Nearest == FirstTrue(MarkersOn(startDir), 1)

Searching == op \in {"FindProjectRoot", "LoadFromProject"}

LoadIntoDone == op = "LoadInto" /\ pc = "done"

\* The resolved path names no regular file the process may read.
Unreadable(p) == FileAt(p).kind # "file"

\* The stage LoadInto was in when it returned.
Stage == IF reads = <<>> THEN "resolve" ELSE IF decodes = 0 THEN "read" ELSE "decode"

\* C5: a file that cannot be read makes LoadInto fail with "read config
\* ...", never with "parse toml", and the decoder is not called; the stage
\* that failed (path resolution, read, decode) fixes the one class of the
\* error.
C5_ReadFailureIsIOError ==
    LoadIntoDone =>
        /\ (reads # <<>> /\ Unreadable(reads[1])) =>
              /\ HasPrefix(err.msg, <<"read", "config">>)
              /\ ~Contains(err.msg, <<"parse", "toml">>)
              /\ decodes = 0
              /\ target = target0
        /\ err # Nil =>
              /\ HasPrefix(err.msg, <<"get", "clean", "path">>) <=> Stage = "resolve"
              /\ HasPrefix(err.msg, <<"read", "config">>) <=> Stage = "read"
              /\ HasPrefix(err.msg, <<"parse", "toml">>) <=> Stage = "decode"

C5_Witness ==
    /\ LoadIntoDone
    /\ reads # <<>>
    /\ FileAt(reads[1]).kind = "absent"
    /\ HasPrefix(err.msg, <<"read", "config">>)
    /\ ErrorsIs(err, "ENOENT")

\* The file LoadInto read holds the payload d.
LoadedPayload(d) ==
    /\ LoadIntoDone
    /\ reads # <<>>
    /\ ~Unreadable(reads[1])
    /\ FileAt(reads[1]).data = d

\* C6: a readable file with a syntax error or with text for the numeric
\* field makes LoadInto fail with "parse toml" wrapped around the parser's
\* diagnostic; the call never succeeds.
C6_MalformedPayloadIsParseError ==
    /\ LoadedPayload(SyntaxPayload) =>
          /\ Contains(err.msg, <<"parse", "toml">> \o DecodeSyntaxError.msg)
          /\ ErrorsIs(err, "toml.DecodeError")
    /\ LoadedPayload(MismatchPayload) =>
          /\ Contains(err.msg, <<"parse", "toml">> \o DecodeTypeError.msg)
          /\ ErrorsIs(err, "toml.DecodeError")

C6_Witness ==
    /\ LoadedPayload(MismatchPayload)
    /\ decodes = 1
    /\ Contains(err.msg, <<"parse", "toml">>)

\* C7 as claimed: after LoadInto of an empty file there is no error and
\* every field of the target is zero, whatever target was passed.
C7_EmptyPayloadZeroesTarget ==
    LoadedPayload(EmptyPayload) => (err = Nil /\ target = ZeroTarget)

\* C7, amended: LoadInto of an empty file calls the decoder, returns no
\* error and leaves the target as the caller passed it (zero if it was zero).
C7_EmptyPayloadKeepsTarget ==
    LoadedPayload(EmptyPayload) => (err = Nil /\ decodes = 1 /\ target = target0)

C7_Witness ==
    /\ LoadedPayload(EmptyPayload)
    /\ err = Nil
    /\ target0 = ZeroTarget
    /\ target = ZeroTarget

\* C8: with PROJECT_TOML unset Load fails with ErrProjectTomlNotSet; it
\* builds no request, sends none and does not call the decoder.
C8_SourceUnset ==
    (op = "Load" /\ pc # "Getenv" /\ env = "") =>
        /\ pc = "done"
        /\ err = ErrProjectTomlNotSet
        /\ requests = 0
        /\ sent = 0
        /\ decodes = 0
        /\ target = target0

C8_Witness ==
    /\ op = "Load"
    /\ pc = "done"
    /\ env = ""
    /\ ErrorsIs(err, "ErrProjectTomlNotSet")

Fetching == op \in {"Load", "LoadFromURL"}

\* C9: a response with a status other than 200 makes fetchURL, and Load and
\* LoadFromURL with it, fail with ErrUnexpectedHTTPStatus and the status in
\* the message; the body is not read and the decoder is not called.
C9_StatusError ==
    (Fetching /\ pc \in {"Close", "unmarshalTOML", "done"} /\ resp # NoResponse
              /\ resp.status # StatusOK) =>
        /\ pc # "unmarshalTOML"
        /\ ErrorsIs(err, "ErrUnexpectedHTTPStatus")
        /\ Contains(err.msg, ErrUnexpectedHTTPStatus.msg \o <<StatusText(resp.status)>>)
        /\ bodyReads = 0
        /\ decodes = 0

C9_Witness ==
    /\ op = "Load"
    /\ pc = "done"
    /\ resp.status = 500
    /\ ErrorsIs(err, "ErrUnexpectedHTTPStatus")
    /\ bodyReads = 0

\* The classes of the failures of fetchURL, told by their messages.
IsRequestError(e) ==
    Contains(e.msg, <<"create", "http", "request">>)
        \/ Contains(e.msg, <<"create", "HTTP", "request">>)

IsTransportError(e) ==
    Contains(e.msg, <<"fetch", "toml", "from", "url">>)
        \/ Contains(e.msg, <<"execute", "HTTP", "request">>)

IsStatusError(e) == ErrorsIs(e, "ErrUnexpectedHTTPStatus")

IsBodyReadError(e) == Contains(e.msg, <<"read", "response", "body">>)

ClassesOf(e) ==
    {c \in {"RequestError", "TransportError", "StatusError", "BodyReadError"} :
        \/ c = "RequestError" /\ IsRequestError(e)
        \/ c = "TransportError" /\ IsTransportError(e)
        \/ c = "StatusError" /\ IsStatusError(e)
        \/ c = "BodyReadError" /\ IsBodyReadError(e)}

\* fetchURL was called and has failed.
FetchURLFailed == Fetching /\ pc = "done" /\ requests > 0 /\ decodes = 0 /\ err # Nil

\* C10 as claimed: every failure of fetchURL is a RequestError, a
\* TransportError or a StatusError.
C10_ThreeFetchErrorClasses ==
    FetchURLFailed =>
        Cardinality(ClassesOf(err) \cap {"RequestError", "TransportError", "StatusError"}) = 1

\* C10, amended: every failure of fetchURL belongs to exactly one of four
\* classes: RequestError, TransportError, StatusError, or the failure to read
\* the body of a 200 response ("read response body").
C10_FourFetchErrorClasses ==
    FetchURLFailed =>
        /\ Cardinality(ClassesOf(err)) = 1
        /\ IsRequestError(err) <=> sent = 0
        /\ IsTransportError(err) <=> (sent = 1 /\ resp = NoResponse)
        /\ IsStatusError(err) <=> (resp # NoResponse /\ resp.status # StatusOK)
        /\ IsBodyReadError(err) <=> (resp # NoResponse /\ resp.status = StatusOK)

C10_Witness ==
    /\ FetchURLFailed
    /\ op = "LoadFromURL"
    /\ resp.status = StatusOK
    /\ ~resp.readOK
    /\ IsBodyReadError(err)
    /\ closes = 1

\* fetchURL is being executed.
InFetchURL == Fetching /\ pc \in {"NewRequest", "Do", "processResponse", "Close"}

\* fetchURL has returned to LoadFromURL or Load.
FetchURLReturned == Fetching /\ requests > 0 /\ pc \in {"unmarshalTOML", "done"}

\* fetchURL was left by a panic.
FetchURLUnwound == Fetching /\ pc = "panic"

\* C11: once fetchURL has obtained a response its body is closed exactly
\* once before fetchURL returns, whether the status was not 200, the read
\* failed or all went well; without a response nothing is closed; the
\* context is cancelled exactly once on every way out.
C11_BodyReleasedOnce ==
    /\ InFetchURL => (closes = 0 /\ cancels = 0)
    /\ (FetchURLReturned \/ FetchURLUnwound) =>
           /\ closes = (IF resp # NoResponse THEN 1 ELSE 0)
           /\ cancels = 1
    /\ closes > 0 => (resp # NoResponse /\ (resp.status = StatusOK => bodyReads = 1))

C11_Witness ==
    /\ op = "LoadFromURL"
    /\ pc = "done"
    /\ resp # NoResponse
    /\ resp.status = 500
    /\ closes = 1
    /\ cancels = 1

\* C12 as claimed: fetchURL is left at most DefaultURLTimeout seconds after
\* it started, and a request not completed by then is reported as a
\* TransportError.
C12_DeadlineIsTransportError ==
    /\ Fetching => clock <= DefaultURLTimeout
    /\ (FetchURLReturned /\ clock >= DefaultURLTimeout) => IsTransportError(err)
    /\ (FetchURLReturned /\ sent = 1 /\ resp = NoResponse) => IsTransportError(err)

\* C12, amended: fetchURL is left at most DefaultURLTimeout seconds after
\* it started; when the deadline passes before a response arrived the
\* failure is a TransportError that wraps context.DeadlineExceeded, when it
\* passes while the body of a 200 response is read the failure is "read
\* response body"; a request that got no response is a TransportError.
C12_DeadlineBoundsFetch ==
    /\ Fetching => clock <= DefaultURLTimeout
    /\ (FetchURLReturned /\ clock >= DefaultURLTimeout) =>
           /\ pc = "done"
           /\ err # Nil
           /\ resp = NoResponse =>
                  (IsTransportError(err) /\ ErrorsIs(err, "context.DeadlineExceeded"))
           /\ resp # NoResponse => (resp.status = StatusOK /\ IsBodyReadError(err))
    /\ (FetchURLReturned /\ sent = 1 /\ resp = NoResponse) => IsTransportError(err)

C12_Witness ==
    /\ op = "LoadFromURL"
    /\ pc = "done"
    /\ clock = DefaultURLTimeout
    /\ resp # NoResponse
    /\ resp.readOK
    /\ IsBodyReadError(err)

\* C13: LoadFromURL and Load return no error exactly when the URL made a
\* request, the server answered 200, the whole body arrived before the
\* deadline and the payload decoded; the target then holds the fields of
\* the payload that was sent.
C13_SuccessIffFetchedAndDecoded ==
    (Fetching /\ pc = "done") =>
        /\ (err = Nil) <=>
               /\ URLParses(url)
               /\ resp # NoResponse
               /\ resp.status = StatusOK
               /\ resp.readOK
               /\ clock < DefaultURLTimeout
               /\ TomlUnmarshal(resp.body, target0).err = Nil
        /\ err = Nil =>
               /\ target = TomlUnmarshal(resp.body, target0).target
               /\ resp.body = ValidPayload =>
                      target = [name |-> "test-project", port |-> 8080]
               /\ resp.body = EmptyPayload => target = target0

C13_Witness ==
    /\ op = "Load"
    /\ pc = "done"
    /\ err = Nil
    /\ resp.body = ValidPayload
    /\ target0 = OldTarget
    /\ target = [name |-> "test-project", port |-> 8080]

\* LoadFromProject has returned without an error.
LoadFromProjectSucceeded == op = "LoadFromProject" /\ pc = "done" /\ err = Nil

\* The file a directory's marker path names.
MarkerFile(d) == FileAt(Resolve(Join(d, ProjectConfigFile)))

\* C14: on success LoadFromProject returns the root FindProjectRoot found,
\* the nearest directory of the chain that holds the marker; the one file
\* it has read is the marker of that root and the target holds what that
\* file decodes to.
C14_RootAndItsMarkerLoaded ==
    LoadFromProjectSucceeded =>
        /\ Nearest > 0
        /\ retRoot = projectRoot
        /\ retRoot = Chain(startDir)[Nearest]
        /\ reads = <<Resolve(Join(retRoot, ProjectConfigFile))>>
        /\ MarkerFile(retRoot).kind = "file"
        /\ target = TomlUnmarshal(MarkerFile(retRoot).data, target0).target
        /\ MarkerFile(retRoot).data = SubMarkerPayload => target.name = "sub"
        /\ MarkerFile(retRoot).data = RootMarkerPayload => target.name = "root"

C14_Witness ==
    /\ LoadFromProjectSucceeded
    /\ Nearest = 2
    /\ Len(Chain(startDir)) >= 3
    /\ retRoot = Chain(startDir)[2]
    /\ MarkersOn(startDir)[3]
    /\ target.name = "sub"
    /\ target0 = OldTarget

\* LoadFromProject has returned after FindProjectRoot found a root.
LoadFromProjectFoundRoot == op = "LoadFromProject" /\ pc = "done" /\ Nearest > 0

\* C15 as claimed: when FindProjectRoot found a root LoadFromProject returns
\* that root, also together with an error.
C15_RootReturnedWithError ==
    LoadFromProjectFoundRoot => retRoot = Chain(startDir)[Nearest]

\* C15, amended: the root is returned only on success; when FindProjectRoot
\* found a root and loading its marker fails (path rejected, file not
\* readable, payload not decodable) LoadFromProject returns the empty string
\* with the error wrapped as "load config".
C15_RootOnlyOnSuccess ==
    LoadFromProjectFoundRoot =>
        /\ projectRoot = Chain(startDir)[Nearest]
        /\ err = Nil => retRoot = projectRoot
        /\ err # Nil =>
               /\ retRoot = <<>>
               /\ SubSeq(err.msg, 1, 2) = <<"load", "config">>
               /\ \/ ErrorsIs(err, "ErrPathTraversalAttempt")
                  \/ Contains(err.msg, <<"get", "working", "directory">>)
                  \/ Contains(err.msg, <<"read", "config", "file">>)
                  \/ Contains(err.msg, <<"parse", "toml">>)

C15_Witness ==
    /\ LoadFromProjectFoundRoot
    /\ projectRoot = DirA
    /\ Contains(err.msg, <<"parse", "toml">>)
    /\ retRoot = <<>>

\* LoadInto was called with an absolute path and getCleanPath has returned.
AbsoluteInputResolved ==
    op = "LoadInto" /\ IsAbs(path) /\ pc \in {"ReadFile", "unmarshalTOML", "done"}

\* C16: for an absolute input getCleanPath returns the lexically cleaned
\* path and never fails, whatever the working directory is and also when
\* the input holds ".." elements; LoadInto reads the file at the cleaned
\* path.
C16_AbsoluteInputCleaned ==
    AbsoluteInputResolved =>
        /\ cleanPath = Clean(path)
        /\ IsAbs(cleanPath)
        /\ Canonical(cleanPath)
        /\ ~ErrorsIs(err, "ErrPathTraversalAttempt")
        /\ ~Contains(err.msg, <<"get", "clean", "path">>)
        /\ pc # "ReadFile" => reads = <<cleanPath>>

C16_Witness ==
    /\ AbsoluteInputResolved
    /\ pc = "done"
    /\ wd = DirA
    /\ path = <<"/", ".", ".">>
    /\ reads = <<RootDir>>
    /\ Contains(err.msg, <<"read", "config", "file">>)

\* The elements of a relative path that are neither empty (repeated or
\* trailing separator) nor ".".
Segments(p) == SelectSeq(Split(p), LAMBDA e : e # <<>> /\ e # Dot)

\* Two relative inputs that differ at most in repeated separators,
\* trailing separators and "." elements.
SameNormalForm(p, q) == ~IsAbs(p) /\ ~IsAbs(q) /\ Segments(p) = Segments(q)

\* What getCleanPath gives for p: the path, or the kind of failure.
Outcome(p) ==
    LET r == getCleanPath(p)
    IN [path |-> r.path, failed |-> r.err # Nil,
        traversal |-> ErrorsIs(r.err, "ErrPathTraversalAttempt")]

\* LoadInto was called with a relative path and getCleanPath has just
\* returned, with a path or with an error.
RelativeInputResolved ==
    /\ op = "LoadInto"
    /\ ~IsAbs(path)
    /\ pc = "ReadFile" \/ (pc = "done" /\ reads = <<>>)

\* What getCleanPath gave in the call being executed.
Observed ==
    [path |-> IF pc = "ReadFile" THEN cleanPath ELSE <<>>, failed |-> pc = "done",
     traversal |-> ErrorsIs(err, "ErrPathTraversalAttempt")]

\* C17: the result of getCleanPath for a relative input is the result for
\* every other relative input with the same elements once empty and "."
\* elements are dropped (the same path, or both rejected as traversal);
\* the empty input and "." both give the working directory.
C17_OutcomeByNormalForm ==
    RelativeInputResolved =>
        /\ \A q \in PathInputs : SameNormalForm(path, q) => Outcome(q) = Observed
        /\ (wdAvail /\ Segments(path) = <<>>) => (pc = "ReadFile" /\ cleanPath = wd)

C17_Witness ==
    /\ RelativeInputResolved
    /\ path = <<>>
    /\ wd = DirA
    /\ cleanPath = DirA
    /\ Outcome(Dot).path = DirA

\* The body of the 200 response could not be read to its end.
BodyReadFailed == resp # NoResponse /\ resp.status = StatusOK /\ bodyReads = 1 /\ data # resp.body

\* C18: a call of Load or LoadFromURL builds and sends at most one request,
\* reads the body and decodes at most once and touches no file; the first
\* step that fails ends the call, which returns that failure: nothing is
\* sent, read or decoded after it.
C18_NoRetryNoRecovery ==
    Fetching =>
        /\ requests <= 1 /\ sent <= 1 /\ bodyReads <= 1 /\ decodes <= 1
        /\ examined = <<>> /\ reads = <<>>
        /\ (requests = 1 /\ ~URLParses(url)) =>
               (pc = "done" /\ IsRequestError(err) /\ sent = 0 /\ decodes = 0)
        /\ (sent = 1 /\ resp = NoResponse) =>
               (pc = "done" /\ IsTransportError(err) /\ bodyReads = 0 /\ decodes = 0)
        /\ (resp # NoResponse /\ resp.status # StatusOK /\ pc = "done") =>
               (IsStatusError(err) /\ bodyReads = 0 /\ decodes = 0)
        /\ (BodyReadFailed /\ pc = "done") => (IsBodyReadError(err) /\ decodes = 0)
        /\ (decodes = 1 /\ TomlUnmarshal(data, target0).err # Nil) =>
               (pc = "done" /\ ErrorsIs(err, "toml.DecodeError"))
        /\ (pc = "done" /\ err = Nil) => (sent = 1 /\ bodyReads = 1 /\ decodes = 1)

C18_Witness ==
    /\ op = "Load"
    /\ pc = "done"
    /\ sent = 1
    /\ resp = NoResponse
    /\ IsTransportError(err)
    /\ requests = 1
    /\ decodes = 0

\* getCleanPath has rejected the relative path of the call: filepath.Rel
\* from the working directory starts with "..".
PathRejected ==
    /\ op \in {"LoadInto", "LoadFromProject"}
    /\ pc = "done"
    /\ reads = <<>>
    /\ op = "LoadFromProject" => configPath # <<>>
    /\ ~IsAbs(path)
    /\ wdAvail
    /\ HasPrefix(Rel(wd, Join(wd, path)).rel, DotDot)

\* C19: the errors of the composed operations are wrapped and still
\* satisfy errors.Is with the sentinel of their cause: LoadFromProject
\* without a marker with ErrProjectConfigNotFound, LoadInto and
\* LoadFromProject on a rejected path with ErrPathTraversalAttempt, Load on
\* a status other than 200 with ErrUnexpectedHTTPStatus.
C19_CauseIdentified ==
    /\ (op = "LoadFromProject" /\ pc = "done" /\ Nearest = 0) =>
           /\ ErrorsIs(err, "ErrProjectConfigNotFound")
           /\ err.msg = <<"find", "project", "root">> \o ErrProjectConfigNotFound.msg
    /\ PathRejected =>
           /\ ErrorsIs(err, "ErrPathTraversalAttempt")
           /\ Contains(err.msg, <<"get", "clean", "path">> \o ErrPathTraversalAttempt.msg)
           /\ op = "LoadFromProject" => SubSeq(err.msg, 1, 2) = <<"load", "config">>
    /\ (op = "Load" /\ pc = "done" /\ resp # NoResponse /\ resp.status # StatusOK) =>
           /\ ErrorsIs(err, "ErrUnexpectedHTTPStatus")
           /\ SubSeq(err.msg, 1, 6) = <<"failed", "to", "fetch", "TOML", "from", url>>

C19_Witness ==
    /\ PathRejected
    /\ op = "LoadFromProject"
    /\ startDir = DotDot
    /\ ErrorsIs(err, "ErrPathTraversalAttempt")
    /\ SubSeq(err.msg, 1, 2) = <<"load", "config">>

\* C20: no operation writes to a logger and none panics, also when
\* closing the response body fails and when the logger is nil; a call
\* that has ended has returned.
C20_NeverLogsNeverPanics ==
    /\ logged = 0
    /\ ~panicked
    /\ pc # "panic"

\* Number of elements of a path in cleaned form.
Depth(p) == Len(Elems(Clean(p)))

InsideInputResolved ==
    /\ op = "LoadInto"
    /\ pc \in {"ReadFile", "unmarshalTOML", "done"}
    /\ ~IsAbs(path)
    /\ wdAvail
    /\ Within(wd, Resolve(path))

\* C24: a relative input that stays in the working directory is never
\* rejected as a traversal, whatever its first element starts with;
\* getCleanPath returns the working directory joined with the cleaned
\* input.
C24_OnlyEscapingRejected ==
    InsideInputResolved =>
        /\ ~ErrorsIs(err, "ErrPathTraversalAttempt")
        /\ cleanPath = Join(wd, Clean(path))

\* Position on the chain of directory d of the nearest directory that
\* holds the marker, 0 when none does.
NearestOn(d) == FirstTrue([i \in 1..Len(Chain(d)) |-> MarkerIn(Chain(d)[i])], 1)

\* FindProjectRoot has returned for a relative startDir.
RelativeSearchDone ==
    op = "FindProjectRoot" /\ pc = "done" /\ ~IsAbs(startDir) /\ wdAvail

\* C25: FindProjectRoot with a relative startDir finds what it finds
\* from the working directory joined with startDir: when that directory or
\* one above it, up to the root of the file system, holds project.toml the
\* call succeeds with the nearest of them.
C25_RelativeStartReachesRoot ==
    RelativeSearchDone =>
        LET start == Join(wd, startDir)
            n == NearestOn(start)
        IN n > 0 => (err = Nil /\ Resolve(projectRoot) = Chain(start)[n])

\* LoadFromProject has returned; FindProjectRoot had found a root whose
\* marker is a readable file that decodes.
LoadableRootFound ==
    /\ LoadFromProjectFoundRoot
    /\ MarkerFile(Chain(startDir)[Nearest]).kind = "file"
    /\ TomlUnmarshal(MarkerFile(Chain(startDir)[Nearest]).data, target0).err = Nil

\* C26: when FindProjectRoot finds a root whose marker is readable and
\* decodes, LoadFromProject succeeds from the same startDir: LoadInto does
\* not reject the marker path FindProjectRoot returned.
C26_DiscoveryThenLoadSucceeds ==
    LoadableRootFound =>
        /\ err = Nil
        /\ ~ErrorsIs(err, "ErrPathTraversalAttempt")
        /\ retRoot = Chain(startDir)[Nearest]

\* C27: the loop guarded by isRootDirectory and the check-then-ascend loop
\* return the same root and the same marker path and fail in the same
\* cases, for every startDir and every placement of markers.
C27_LoopsEquivalent ==
    (op = "FindProjectRoot" /\ pc = "done") =>
        LET guarded == FindProjectRootGuarded(startDir)
        IN /\ guarded.projectRoot = projectRoot
           /\ guarded.configPath = configPath
           /\ (guarded.err = Nil) <=> (err = Nil)

\* The call has ended and something before its decode step had failed:
\* path resolution or read (LoadInto, LoadFromProject), discovery
\* (LoadFromProject), the source, the request, the transport, the status
\* or the body (Load, LoadFromURL).
FailedBeforeDecode ==
    /\ pc = "done"
    /\ \/ /\ op = "LoadInto"
          /\ reads = <<>> \/ Unreadable(reads[1])
       \/ /\ op = "LoadFromProject"
          /\ Nearest = 0 \/ reads = <<>> \/ Unreadable(reads[1])
       \/ /\ Fetching
          /\ \/ requests = 0
             \/ ~URLParses(url)
             \/ resp = NoResponse
             \/ resp.status # StatusOK
             \/ ~resp.readOK
             \/ clock >= DefaultURLTimeout

\* C28: a call that fails before its decode step returns an error, has not
\* called the decoder and leaves the target as the caller passed it; the
\* target changes in no step other than the decode.
C28_FailureBeforeDecodeKeepsTarget ==
    /\ decodes = 0 => target = target0
    /\ FailedBeforeDecode => (err # Nil /\ decodes = 0 /\ target = target0)

C28_Witness ==
    /\ FailedBeforeDecode
    /\ op = "LoadFromURL"
    /\ resp # NoResponse
    /\ resp.status = 500
    /\ target0 = OldTarget
    /\ target = OldTarget
    /\ decodes = 0

\* C29: Load calls os.Getenv once; the URL it fetches and the URL its
\* error names are the value that call returned, whatever PROJECT_TOML
\* holds afterwards.
C29_EnvReadOnce ==
    op = "Load" =>
        /\ Len(getenvs) <= 1
        /\ pc # "Getenv" => Len(getenvs) = 1
        /\ (getenvs # <<>> /\ getenvs[1] # "") => url = getenvs[1]
        /\ (getenvs # <<>> /\ getenvs[1] = "") =>
               (pc = "done" /\ err = ErrProjectTomlNotSet /\ requests = 0)
        /\ (pc = "done" /\ requests = 1 /\ decodes = 0 /\ err # Nil) =>
               SubSeq(err.msg, 1, 6) = <<"failed", "to", "fetch", "TOML", "from", getenvs[1]>>

C29_Witness ==
    /\ op = "Load"
    /\ pc = "done"
    /\ getenvs = <<"http://one/config.toml">>
    /\ env = ""
    /\ sent = 1
    /\ IsStatusError(err)
    /\ SubSeq(err.msg, 1, 6) = <<"failed", "to", "fetch", "TOML", "from", "http://one/config.toml">>

\* LoadFromProject has ended after its LoadInto tried to read a marker that
\* FindProjectRoot had found and that is no longer a file.
MarkerGoneAtRead ==
    /\ op = "LoadFromProject"
    /\ pc = "done"
    /\ configPath # <<>>
    /\ reads # <<>>
    /\ FileAt(reads[1]).kind \in {"absent", "dir"}

\* C30: when the marker FindProjectRoot found is removed or replaced by a
\* directory before LoadInto reads it, LoadFromProject fails with the read
\* error wrapped as "load config", not with ErrProjectConfigNotFound; it
\* returns an empty root and examines no directory after the discovery.
C30_MarkerGoneIsReadError ==
    MarkerGoneAtRead =>
        /\ SubSeq(err.msg, 1, 5) = <<"load", "config", "read", "config", "file">>
        /\ ErrorsIs(err, "ENOENT") \/ ErrorsIs(err, "EISDIR")
        /\ ~ErrorsIs(err, "ErrProjectConfigNotFound")
        /\ retRoot = <<>>
        /\ examined[Len(examined)] = configPath
        /\ Len(reads) = 1
        /\ decodes = 0
        /\ target = target0

C30_Witness ==
    /\ MarkerGoneAtRead
    /\ startDir = DirA
    /\ markers[DirA] = Absent
    /\ markers[RootDir] = File(RootMarkerPayload)
    /\ ErrorsIs(err, "ENOENT")
    /\ examined = <<MarkerPath(DirA)>>

\* The tool has ended a run with -validate.
ValidateRunEnded ==
    /\ cliPc = "exit"
    /\ cliFlags.validate
    /\ ~cliFlags.help
    /\ ~cliFlags.findRoot

\* The bytes of the file a run is pointed at, by -config or by the search
\* from the working directory.
FileToValidate ==
    IF resolveConfigPath(cliFlags).err # Nil THEN [data |-> <<>>, err |-> ENOENT]
    ELSE ReadFile(getCleanPathCLI(resolveConfigPath(cliFlags).path))

\* The structured decoder finds no syntax error in the payload.
SyntaxValid(d) == TomlUnmarshal(d, ZeroTarget).err # DecodeSyntaxError

\* C22: the tool exits with 0 or 1; with -validate, given -config or left to
\* find the file, a file with invalid syntax makes it exit with 1 and an
\* error message, and "Configuration valid" is written only when the file
\* was read and has no syntax error.
C22_ValidateExitCodes ==
    /\ cliPc = "exit" => exitCode \in {ExitSuccess, ExitError}
    /\ ValidateRunEnded =>
        /\ (FileToValidate.err = Nil /\ ~SyntaxValid(FileToValidate.data)) =>
               /\ exitCode = ExitError
               /\ stderr # <<>>
               /\ stderr[Len(stderr)].err # Nil
        /\ (\E i \in DOMAIN stderr : stderr[i].text = "ConfigurationValid") =>
               /\ exitCode = ExitSuccess
               /\ FileToValidate.err = Nil
               /\ cliData = FileToValidate.data
               /\ SyntaxValid(cliData)

\* The call c has returned what it returns when it is made alone.
ReturnsAsAlone(c) ==
    CASE c.op = "LoadInto" ->
            /\ c.err = LoadIntoAlone(c.path, c.target0).err
            /\ c.target = LoadIntoAlone(c.path, c.target0).target
      [] c.op = "FindProjectRoot" ->
            /\ c.err = FindProjectRootAlone(c.startDir).err
            /\ c.projectRoot = FindProjectRootAlone(c.startDir).projectRoot
            /\ c.configPath = FindProjectRootAlone(c.startDir).configPath
      [] c.op = "LoadFromProject" ->
            /\ c.err = LoadFromProjectAlone(c.startDir, c.target0).err
            /\ c.retRoot = LoadFromProjectAlone(c.startDir, c.target0).root
            /\ c.target = LoadFromProjectAlone(c.startDir, c.target0).target
      [] c.op = "LoadFromURL" ->
            /\ c.err = LoadFromURLAlone(c.url, c.target0).err
            /\ c.target = LoadFromURLAlone(c.url, c.target0).target

\* Every call that has returned has returned as it does alone.
ResultsAsAlone == \A g \in Goroutines : CallOf(g).pc = "done" => ReturnsAsAlone(CallOf(g))

\* A call is under way in goroutine g.
UnderWay(g) == CallOf(g).pc \notin {"idle", "done", "panic"}

\* C21: calls made side by side over a file system and a server that do not
\* change return what they return alone and leave their targets as they do
\* alone; no call is kept from returning by another, and nothing is written
\* by two calls.
C21_NoInterference ==
    /\ ResultsAsAlone
    /\ panicked => \A g \in Goroutines : ~UnderWay(g)
    /\ \A g, h \in Goroutines :
          (g # h /\ CallOf(g).logger = "logger" /\ CallOf(h).logger = "logger") =>
              (CallOf(g).logged = 0 \/ CallOf(h).logged = 0)

====
